---- MODULE Spec2Model ----
(***************************************************************************)
(* A model of smartgen: the global provider registry (ConfigManager, the   *)
(* JSON file ~/.smartgen/.llmconfig), project initialisation               *)
(* (LLMInitService, the file .smartgen.yml), the secret merge of the       *)
(* generators and the parsing and writing of a model response.             *)
(***************************************************************************)
EXTENDS Integers, Sequences, FiniteSets, TLC

(* ---------------- bounds ---------------- *)
NumNames == 2

(* ---------------- values ---------------- *)
\* Python's None, for an optional argument that was not supplied.
None == "<None>"

NameSeq == <<"ollama", "openai", "Ollama", "anthropic">>
Names == {NameSeq[i] : i \in 1..NumNames}

ApiKeys == {"sk-1"}

ProviderTypes == {"local", "cloud"}
ApiKeyArgs == {None} \cup ApiKeys
\* model and url as add_provider is called with them: both left out, or both given
ModelUrlArgs == {<<None, None>>, <<"gpt-4", "http://gpu:11434">>}

DEFAULT_LOCAL_MODEL == "deepseek-coder-v2"
DEFAULT_LOCAL_URL == "http://localhost:11434"

(* ---------------- Python dicts ---------------- *)
\* A dict is a function whose domain is its set of keys.
EmptyDict == [k \in {} |-> None]
Has(d, k) == k \in DOMAIN d
Put(d, k, v) == [x \in (DOMAIN d) \cup {k} |-> IF x = k THEN v ELSE d[x]]
Del(d, k) == [x \in (DOMAIN d) \ {k} |-> d[x]]
\* Python truthiness of an optional string.
Truthy(x) == x /= None /\ x /= ""

(* ---------------- the registry file ---------------- *)
\* The text of the JSON file: an object is the sequence of its members
\* <<key, value>> in the order they are written, a value is a string or a
\* nested object.
FieldSeq == <<"type", "api_key", "model", "url", "api_secret", "token", "password">>
Member(k, v) == <<k, v>>
MemberKeys(obj) == {obj[i][1] : i \in DOMAIN obj}
MemberValue(obj, k) == obj[CHOOSE i \in DOMAIN obj : obj[i][1] = k][2]

\* The keys of keyseq that dict d has, in that order.
KeysIn(d, keyseq) == SelectSeq(keyseq, LAMBDA k : Has(d, k))

\* The object of the string-valued dict d, its keys in the order of keyseq.
DumpLeaves(d, keyseq) ==
    LET ks == KeysIn(d, keyseq)
    IN [i \in 1..Len(ks) |-> Member(ks[i], d[ks[i]])]

DumpProviders(provs, nameseq) ==
    LET ns == KeysIn(provs, nameseq)
    IN [i \in 1..Len(ns) |-> Member(ns[i], DumpLeaves(provs[ns[i]], FieldSeq))]

\* a slip: the default is not written
DumpLlm_without_default(llm) ==
    IF Has(llm, "providers")
    THEN <<Member("providers", DumpProviders(llm["providers"], NameSeq))>>
    ELSE <<>>

DumpLlm(llm) ==
    (IF Has(llm, "providers")
     THEN <<Member("providers", DumpProviders(llm["providers"], NameSeq))>>
     ELSE <<>>)
    \o DumpLeaves(llm, <<"default">>)

\* json.dump(config, f)
json_dump(config) ==
    IF Has(config, "llm") THEN <<Member("llm", DumpLlm(config["llm"]))>> ELSE <<>>

LoadLeaves(obj) == [f \in MemberKeys(obj) |-> MemberValue(obj, f)]
LoadProviders(obj) == [n \in MemberKeys(obj) |-> LoadLeaves(MemberValue(obj, n))]
LoadLlm(obj) ==
    [k \in MemberKeys(obj) |->
        IF k = "providers" THEN LoadProviders(MemberValue(obj, k))
        ELSE MemberValue(obj, k)]

\* json.load(f)
json_load(text) == [k \in MemberKeys(text) |-> LoadLlm(MemberValue(text, k))]

NoFile == [exists |-> FALSE, text |-> <<>>]
FileOf(text) == [exists |-> TRUE, text |-> text]

VARIABLES
    config_file,    \* ConfigManager.CONFIG_FILE: the global registry file
    memory,         \* the config dict the last call held when it ended
    last,           \* the call made by the last step, how it ended, and what
                    \* the registry held for its name when it began
    project_file,   \* <target_dir>/.smartgen.yml
    project_entry,  \* the caller's dict passed to _merge_with_global_config
    merged,         \* that call: the dict as it was given, and the dict returned
    response,       \* the text the model returned
    disk,           \* the files under the project directory: path -> content
    result,         \* how writing the response ended, and the paths returned
    dispatch,       \* one generate_domain: where it is, the backend calls it made
    provision,      \* one _pull_ollama_model: the caller, the worker, the clock
    progress,       \* the progress callback's two dicts and the task it updates
    prompts,        \* the prompts built so far, each with the inputs it had
    procs           \* two processes on one registry: what each loaded and holds

vars == <<config_file, memory, last, project_file, project_entry, merged,
          response, disk, result, dispatch, provision, progress, prompts,
          procs>>

registry_vars == <<config_file, memory>>
project_vars == <<project_file>>
merge_vars == <<project_entry, merged>>
write_vars == <<response, disk, result>>
call_vars == <<dispatch, provision>>
side_vars == <<progress, prompts, procs>>

\* Before the first progress payload: rich shows the task as it was added.
NoProgress ==
    [digest_totals |-> EmptyDict, digest_completed |-> EmptyDict,
     task |-> [total |-> <<>>, completed |-> 0,
               description |-> "Pulling Ollama model", percent_text |-> <<>>],
     recent |-> [total |-> EmptyDict, completed |-> EmptyDict],
     status |-> None, payloads |-> 0]

\* Neither process has begun a call.
NoProcesses ==
    [run |-> [pid \in {1, 2} |->
                 [pc |-> "idle", op |-> None, loaded |-> EmptyDict,
                  config |-> EmptyDict]],
     ops |-> 0, saves |-> 0, overwrote |-> FALSE]

Aside ==
    /\ progress = NoProgress
    /\ prompts = <<>>
    /\ procs = NoProcesses

(* ---------------- ConfigManager ---------------- *)
load_config(file) == IF file.exists THEN json_load(file.text) ELSE EmptyDict
save_config(config) == FileOf(json_dump(config))

\* config.get("llm", {}).get("providers", {})
ProvidersOf(config) ==
    IF Has(config, "llm") /\ Has(config["llm"], "providers")
    THEN config["llm"]["providers"] ELSE EmptyDict
\* config.get("llm", {}).get("default")
DefaultOf(config) ==
    IF Has(config, "llm") /\ Has(config["llm"], "default")
    THEN config["llm"]["default"] ELSE None

\* The entry add_provider builds from its arguments.
provider_config_of(provider_type, api_key, model, url) ==
    LET c0 == [type |-> provider_type]
        c1 == IF Truthy(api_key) THEN Put(c0, "api_key", api_key) ELSE c0
        c2 == IF Truthy(model) THEN Put(c1, "model", model)
              ELSE IF provider_type = "local"
                   THEN Put(c1, "model", DEFAULT_LOCAL_MODEL) ELSE c1
        c3 == IF Truthy(url) THEN Put(c2, "url", url)
              ELSE IF provider_type = "local"
                   THEN Put(c2, "url", DEFAULT_LOCAL_URL) ELSE c2
    IN c3

\* a slip: the only entry so far also counts as "first"
is_first_provider_off_by_one(provs) == Cardinality(DOMAIN provs) <= 1

is_first_provider(provs) == Cardinality(DOMAIN provs) = 0

\* config with "llm" and "llm.providers" set to {} where they are missing
WithProviders(config) ==
    LET llm0 == IF Has(config, "llm") THEN config["llm"] ELSE EmptyDict
        llm1 == IF Has(llm0, "providers") THEN llm0
                ELSE Put(llm0, "providers", EmptyDict)
    IN Put(config, "llm", llm1)

\* a slip: the new fields are merged into the entry already stored
add_provider_merging(config, name, provider_type, api_key, model, url) ==
    LET llm1 == WithProviders(config)["llm"]
        new == provider_config_of(provider_type, api_key, model, url)
        old == IF Has(llm1["providers"], name) THEN llm1["providers"][name] ELSE EmptyDict
        entry == [f \in (DOMAIN old) \cup (DOMAIN new) |->
                    IF Has(new, f) THEN new[f] ELSE old[f]]
        llm2 == Put(llm1, "providers", Put(llm1["providers"], name, entry))
        llm3 == IF is_first_provider(llm1["providers"])
                THEN Put(llm2, "default", name) ELSE llm2
    IN Put(config, "llm", llm3)

\* a slip: the added name also becomes the default when none is set
add_provider_restoring_default(config, name, provider_type, api_key, model, url) ==
    LET llm1 == WithProviders(config)["llm"]
        llm2 == Put(llm1, "providers",
                    Put(llm1["providers"], name,
                        provider_config_of(provider_type, api_key, model, url)))
        llm3 == IF is_first_provider(llm1["providers"]) \/ ~Has(llm1, "default")
                THEN Put(llm2, "default", name) ELSE llm2
    IN Put(config, "llm", llm3)

\* The dict add_provider saves, from the dict it loaded.
add_provider(config, name, provider_type, api_key, model, url) ==
    LET llm1 == WithProviders(config)["llm"]
        llm2 == Put(llm1, "providers",
                    Put(llm1["providers"], name,
                        provider_config_of(provider_type, api_key, model, url)))
        llm3 == IF is_first_provider(llm1["providers"])
                THEN Put(llm2, "default", name) ELSE llm2
    IN Put(config, "llm", llm3)

\* config with "llm" set to {} where it is missing
WithLlm(config) == IF Has(config, "llm") THEN config ELSE Put(config, "llm", EmptyDict)

\* a slip: the membership test is left out
set_default_raises_never(config, provider_name) == FALSE

set_default_raises(config, provider_name) ==
    provider_name \notin DOMAIN ProvidersOf(config)

\* The dict set_default_provider holds when it ends, from the dict it loaded.
set_default_provider(config, provider_name) ==
    IF set_default_raises(config, provider_name) THEN WithLlm(config)
    ELSE Put(config, "llm", Put(WithLlm(config)["llm"], "default", provider_name))

remove_returns_early(config) == ~Has(config, "llm")

remove_raises(config, provider_name) ==
    /\ ~remove_returns_early(config)
    /\ provider_name \notin DOMAIN ProvidersOf(config)

\* a slip: the default is left naming the removed entry
remove_provider_keeps_default(config, provider_name) ==
    IF remove_returns_early(config) \/ remove_raises(config, provider_name)
    THEN config
    ELSE LET llm0 == config["llm"]
         IN Put(config, "llm",
                Put(llm0, "providers", Del(llm0["providers"], provider_name)))

\* a slip: another entry is promoted when the default is removed
remove_provider_promotes(config, provider_name) ==
    IF remove_returns_early(config) \/ remove_raises(config, provider_name)
    THEN config
    ELSE LET llm0 == config["llm"]
             rest == Del(llm0["providers"], provider_name)
             llm1 == Put(llm0, "providers", rest)
             llm2 == IF DefaultOf(config) = provider_name
                     THEN IF DOMAIN rest = {} THEN Del(llm1, "default")
                          ELSE Put(llm1, "default", CHOOSE n \in DOMAIN rest : TRUE)
                     ELSE llm1
         IN Put(config, "llm", llm2)

\* The dict remove_provider holds when it ends, from the dict it loaded.
remove_provider(config, provider_name) ==
    IF remove_returns_early(config) \/ remove_raises(config, provider_name)
    THEN config
    ELSE LET llm0 == config["llm"]
             llm1 == Put(llm0, "providers", Del(llm0["providers"], provider_name))
             llm2 == IF DefaultOf(config) = provider_name
                     THEN Del(llm1, "default") ELSE llm1
         IN Put(config, "llm", llm2)

\* What the registry held for name when the call began.
Before(config, name) ==
    [existed |-> name \in DOMAIN ProvidersOf(config),
     had_key |-> /\ name \in DOMAIN ProvidersOf(config)
                 /\ Has(ProvidersOf(config)[name], "api_key"),
     was_default |-> DefaultOf(config) = name]

Call(op, name, ptype, api_key, model, url, raised, before) ==
    [op |-> op, name |-> name, ptype |-> ptype, api_key |-> api_key,
     model |-> model, url |-> url, raised |-> raised, before |-> before]

AddProvider ==
    \E config \in {load_config(config_file)} :
    \E name \in Names, t \in ProviderTypes, k \in ApiKeyArgs, mu \in ModelUrlArgs :
    \E saved \in {add_provider(config, name, t, k, mu[1], mu[2])} :
        /\ config_file' = save_config(saved)
        /\ memory' = saved
        /\ last' = Call("add_provider", name, t, k, mu[1], mu[2], "none",
                        Before(config, name))
        /\ UNCHANGED <<project_vars, merge_vars, write_vars, call_vars, side_vars>>

SetDefaultProvider ==
    \E config \in {load_config(config_file)} :
    \E name \in Names :
    \E held \in {set_default_provider(config, name)} :
        LET raises == set_default_raises(config, name)
        IN /\ config_file' = IF raises THEN config_file ELSE save_config(held)
           /\ memory' = held
           /\ last' = Call("set_default_provider", name, None, None, None, None,
                           IF raises THEN "ValueError" ELSE "none",
                           Before(config, name))
           /\ UNCHANGED <<project_vars, merge_vars, write_vars, call_vars, side_vars>>

RemoveProvider ==
    \E config \in {load_config(config_file)} :
    \E name \in Names :
    \E held \in {remove_provider(config, name)} :
        LET raises == remove_raises(config, name)
        IN /\ config_file' = IF raises \/ remove_returns_early(config)
                             THEN config_file ELSE save_config(held)
           /\ memory' = held
           /\ last' = Call("remove_provider", name, None, None, None, None,
                           IF raises THEN "ValueError" ELSE "none",
                           Before(config, name))
           /\ UNCHANGED <<project_vars, merge_vars, write_vars, call_vars, side_vars>>

\* update_llm_config(default, api_key): add_provider, then set_default_provider,
\* each a load, a change and a save of its own
UpdateLlmConfig ==
    \E config \in {load_config(config_file)} :
    \E name \in Names, k \in ApiKeys :
    \E added \in {save_config(add_provider(config, name, "cloud", k, None, None))} :
    \E config2 \in {load_config(added)} :
    \E held \in {set_default_provider(config2, name)} :
        LET raises == set_default_raises(config2, name)
        IN /\ config_file' = IF raises THEN added ELSE save_config(held)
           /\ memory' = held
           /\ last' = Call("update_llm_config", name, "cloud", k, None, None,
                           IF raises THEN "ValueError" ELSE "none",
                           Before(config, name))
           /\ UNCHANGED <<project_vars, merge_vars, write_vars, call_vars, side_vars>>

NoCall ==
    Call("none", None, None, None, None, None, "none",
         [existed |-> FALSE, had_key |-> FALSE, was_default |-> FALSE])

\* save_config(c) called directly, as tests/test_config.py does
SampleConfigs ==
    {EmptyDict,
     [llm |-> EmptyDict],
     [llm |-> [default |-> "test"]],
     [llm |-> [providers |-> EmptyDict]]}

SaveConfig ==
    \E c \in SampleConfigs :
        /\ config_file' = save_config(c)
        /\ memory' = c
        /\ last' = Call("save_config", None, None, None, None, None, "none",
                        Before(load_config(config_file), None))
        /\ UNCHANGED <<project_vars, merge_vars, write_vars, call_vars, side_vars>>

\* Nothing materialised, merged or initialised yet.
NotMerged == [given |-> EmptyDict, returned |-> EmptyDict, done |-> FALSE]
\* before is the disk as the last call found it, attempted the number of files
\* it began to write, left the number of calls still to be made, shown the
\* characters of the response that the message of the error raised holds.
NotWritten ==
    [raised |-> "none", paths |-> <<>>, done |-> FALSE,
     before |-> EmptyDict, attempted |-> 0, left |-> 1,
     shown |-> [from |-> 0, to |-> 0]]
\* No generation started: srs, policy and libraries are what it will find.
NotDispatched ==
    [pc |-> "idle", calls |-> <<>>, raised |-> "none", provider |-> EmptyDict,
     srs |-> "ok", policy |-> TRUE, libraries |-> {"ollama", "openai"}]
\* No pull started.
NotPulled ==
    [pc |-> "idle", sink |-> "none", streams |-> TRUE, stream |-> <<>>,
     ends |-> "ok", answer |-> "ok", clock |-> 0, start |-> 0,
     worker |-> "none", calls |-> <<>>, seen |-> <<>>, sunk |-> <<>>,
     outcome |-> "none", returned |-> None]
Idle ==
    /\ dispatch = NotDispatched
    /\ provision = NotPulled
    /\ memory = EmptyDict
    /\ Aside
    /\ last = NoCall
    /\ project_entry = EmptyDict
    /\ merged = NotMerged
    /\ response = <<>>
    /\ disk = EmptyDict
    /\ result = NotWritten

Init ==
    /\ config_file = NoFile
    /\ project_file = NoFile
    /\ Idle

Next ==
    \/ AddProvider
    \/ SetDefaultProvider
    \/ RemoveProvider
    \/ UpdateLlmConfig

Spec == Init /\ [][Next]_vars

NextStore ==
    \/ AddProvider
    \/ SetDefaultProvider
    \/ RemoveProvider
    \/ UpdateLlmConfig
    \/ SaveConfig

\* The registry operations together with direct calls of save_config.
SpecStore == Init /\ [][NextStore]_vars

(* ---------------- LLMInitService ---------------- *)
\* str.lower() on a provider name
Lower(n) == IF n = "Ollama" THEN "ollama" ELSE n

\* d.get(k), None when the key is missing
Get(d, k) == IF Has(d, k) THEN d[k] ELSE None

\* The text of a YAML file, written as the JSON text is: an object is the
\* sequence of its members.
ProjectFieldSeq == <<"language", "pattern", "app">>
DumpProjectLlm(llm) ==
    DumpLeaves(llm, <<"default">>)
    \o (IF Has(llm, "providers")
        THEN <<Member("providers", DumpProviders(llm["providers"], NameSeq))>>
        ELSE <<>>)

\* yaml.safe_dump(config_payload, sort_keys=False)
yaml_safe_dump(payload) ==
    (IF Has(payload, "project")
     THEN <<Member("project", DumpLeaves(payload["project"], ProjectFieldSeq))>>
     ELSE <<>>)
    \o (IF Has(payload, "llm")
        THEN <<Member("llm", DumpProjectLlm(payload["llm"]))>> ELSE <<>>)

\* yaml.safe_load(f)
yaml_safe_load(text) == [k \in MemberKeys(text) |-> LoadLlm(MemberValue(text, k))]

\* The entry initialize writes for the default provider: a copy of the
\* registry's entry, with model and url filled in for a local provider.
normalized_provider_config(provider_config) ==
    IF Get(provider_config, "type") = "local"
    THEN LET model == IF Truthy(Get(provider_config, "model"))
                      THEN provider_config["model"] ELSE DEFAULT_LOCAL_MODEL
             url == IF Truthy(Get(provider_config, "url"))
                    THEN provider_config["url"] ELSE DEFAULT_LOCAL_URL
         IN Put(Put(provider_config, "model", model), "url", url)
    ELSE provider_config

\* How _pull_ollama_model may end.
PullOutcomes == {"ok", "timeout", "error"}

\* a slip: .smartgen.yml is written whether or not it is there already
initialize_raises_overwriting(config, exists, pull) ==
    IF ~Has(config, "llm") \/ DOMAIN config["llm"] = {}
    THEN "MissingConfigError: no configuration"
    ELSE IF ~Truthy(DefaultOf(config))
    THEN "MissingConfigError: no default"
    ELSE IF \/ ~Has(ProvidersOf(config), DefaultOf(config))
            \/ DOMAIN ProvidersOf(config)[DefaultOf(config)] = {}
    THEN "MissingConfigError: default not found"
    ELSE LET default == DefaultOf(config)
             provider_config == ProvidersOf(config)[default]
             provider_type == Get(provider_config, "type")
         IN IF provider_type = "cloud"
            THEN IF ~Truthy(Get(provider_config, "api_key"))
                 THEN "MissingApiKeyError" ELSE "none"
            ELSE IF provider_type = "local"
            THEN IF Lower(default) /= "ollama"
                 THEN "UnsupportedLocalProviderError"
                 ELSE IF pull = "timeout" THEN "LLMInitError: pull timed out"
                 ELSE IF pull = "error" THEN "LLMInitError: pull failed"
                 ELSE "none"
            ELSE "LLMInitError: unknown provider type"

\* The error initialize ends with, "none" when it returns; config is the
\* registry as loaded, exists says whether .smartgen.yml is there already.
initialize_raises(config, exists, pull) ==
    IF ~Has(config, "llm") \/ DOMAIN config["llm"] = {}
    THEN "MissingConfigError: no configuration"
    ELSE IF ~Truthy(DefaultOf(config))
    THEN "MissingConfigError: no default"
    ELSE IF \/ ~Has(ProvidersOf(config), DefaultOf(config))
            \/ DOMAIN ProvidersOf(config)[DefaultOf(config)] = {}
    THEN "MissingConfigError: default not found"
    ELSE LET default == DefaultOf(config)
             provider_config == ProvidersOf(config)[default]
             provider_type == Get(provider_config, "type")
             written == IF exists THEN "LLMInitError: already exists" ELSE "none"
         IN IF provider_type = "cloud"
            THEN IF ~Truthy(Get(provider_config, "api_key"))
                 THEN "MissingApiKeyError" ELSE written
            ELSE IF provider_type = "local"
            THEN IF Lower(default) /= "ollama"
                 THEN "UnsupportedLocalProviderError"
                 ELSE IF pull = "timeout" THEN "LLMInitError: pull timed out"
                 ELSE IF pull = "error" THEN "LLMInitError: pull failed"
                 ELSE written
            ELSE "LLMInitError: unknown provider type"

\* config_payload of _write_project_config
config_payload(provider_name, provider_config) ==
    [llm |-> [default |-> provider_name,
              providers |-> [n \in {provider_name} |-> provider_config]]]

Initialize ==
    \E config \in {load_config(config_file)} :
    \E pull \in PullOutcomes :
    \E raised \in {initialize_raises(config, project_file.exists, pull)} :
        /\ project_file' =
              IF raised = "none"
              THEN FileOf(yaml_safe_dump(
                       config_payload(DefaultOf(config),
                           normalized_provider_config(
                               ProvidersOf(config)[DefaultOf(config)]))))
              ELSE project_file
        /\ last' = Call("initialize", DefaultOf(config), None, None, None, None,
                        raised, Before(config, DefaultOf(config)))
        /\ UNCHANGED <<registry_vars, merge_vars, write_vars, call_vars, side_vars>>

\* The registries the registry operations can leave: any providers, each
\* entry one that add_provider builds, the default one of them or not set.
AllEntries ==
    {provider_config_of(t, k, mu[1], mu[2]) :
        t \in ProviderTypes, k \in ApiKeyArgs, mu \in ModelUrlArgs}
Registries ==
    UNION {UNION {{IF d = None THEN [llm |-> [providers |-> provs]]
                   ELSE [llm |-> [providers |-> provs, default |-> d]] :
                       d \in S \cup {None}} :
                  provs \in [S -> AllEntries]} :
           S \in SUBSET Names}
RegistryFiles == {NoFile} \cup {save_config(c) : c \in Registries}

\* The .smartgen.yml of tests/conftest.py
sample_smartgen_config ==
    [project |-> [language |-> "python", pattern |-> "ddd", app |-> "api"],
     llm |-> [default |-> "ollama",
              providers |-> [ollama |-> [type |-> "local",
                                         model |-> "deepseek-coder-v2"]]]]

InitProject ==
    /\ config_file \in RegistryFiles
    /\ project_file \in {NoFile, FileOf(yaml_safe_dump(sample_smartgen_config))}
    /\ Idle

NextProject == Initialize

\* Project initialisation on any registry the registry operations can leave.
SpecInit == InitProject /\ [][NextProject]_vars

(* ---------------- _merge_with_global_config ---------------- *)
sensitive_fields == <<"api_key", "api_secret", "token", "password">>

RECURSIVE MergeSensitive(_, _, _)
\* The loop over sensitive_fields: a field of the registry's entry is copied
\* where the merged dict does not have it.
MergeSensitive(merged_config, global_provider_config, fields) ==
    IF fields = <<>> THEN merged_config
    ELSE LET field == Head(fields)
         IN MergeSensitive(
                IF Has(global_provider_config, field) /\ ~Has(merged_config, field)
                THEN Put(merged_config, field, global_provider_config[field])
                ELSE merged_config,
                global_provider_config, Tail(fields))

\* a slip: the registry's value is copied over the project's
merge_registry_wins(global_config, provider_name, project_config) ==
    LET global_providers == ProvidersOf(global_config)
        g == IF Has(global_providers, provider_name)
             THEN global_providers[provider_name] ELSE EmptyDict
    IN [project_config |-> project_config,
        merged_config |->
            [f \in (DOMAIN project_config)
                   \cup ((DOMAIN g) \cap {"api_key", "api_secret", "token", "password"}) |->
                IF Has(g, f) /\ f \in {"api_key", "api_secret", "token", "password"}
                THEN g[f] ELSE project_config[f]]]

\* _merge_with_global_config(provider_name, project_config), global_config
\* being what ConfigManager.load_config() returns: the caller's dict after
\* the call, and the dict returned.
merge_with_global_config(global_config, provider_name, project_config) ==
    LET global_providers == ProvidersOf(global_config)
        global_provider_config ==
            IF Has(global_providers, provider_name)
            THEN global_providers[provider_name] ELSE EmptyDict
    IN [project_config |-> project_config,
        merged_config |->
            MergeSensitive(project_config, global_provider_config, sensitive_fields)]

MergeWithGlobalConfig ==
    /\ ~merged.done
    /\ \E global_config \in {load_config(config_file)} :
       \E provider_name \in Names :
       \E r \in {merge_with_global_config(global_config, provider_name, project_entry)} :
            /\ project_entry' = r.project_config
            /\ merged' = [given |-> project_entry, returned |-> r.merged_config,
                          done |-> TRUE]
            /\ last' = Call("_merge_with_global_config", provider_name,
                            None, None, None, None, "none",
                            Before(global_config, provider_name))
    /\ UNCHANGED <<registry_vars, project_vars, write_vars, call_vars, side_vars>>

\* Provider entries of a project file: with or without secrets of their own.
ProjectEntries ==
    UNION {UNION {{LET e0 == [type |-> t, model |-> "gpt-4"]
                       e1 == IF k = None THEN e0 ELSE Put(e0, "api_key", k)
                   IN IF tok = None THEN e1 ELSE Put(e1, "token", tok) :
                       tok \in {None, "tok-project"}} :
                  k \in {None, "", "sk-project"}} :
           t \in ProviderTypes}

\* Registry entries as a registry file may hold them, the sensitive fields
\* other than api_key being there only when the file was edited by hand.
MergeRegistryEntries ==
    UNION {{LET e0 == [type |-> "cloud", model |-> "gpt-3.5-turbo",
                       url |-> "https://api.example.com"]
                e1 == IF k = None THEN e0 ELSE Put(e0, "api_key", k)
            IN IF tok = None THEN e1 ELSE Put(e1, "token", tok) :
                tok \in {None, "tok-registry"}} :
           k \in {None} \cup ApiKeys}

MergeRegistryFiles ==
    {NoFile}
    \cup {save_config([llm |-> [providers |-> [n \in {name} |-> e],
                                default |-> name]]) :
            name \in Names, e \in MergeRegistryEntries}

InitMerge ==
    /\ dispatch = NotDispatched
    /\ provision = NotPulled
    /\ config_file \in MergeRegistryFiles
    /\ project_file = NoFile
    /\ memory = EmptyDict
    /\ Aside
    /\ last = NoCall
    /\ project_entry \in ProjectEntries
    /\ merged = NotMerged
    /\ response = <<>>
    /\ disk = EmptyDict
    /\ result = NotWritten

NextMerge == MergeWithGlobalConfig

\* The secret merge on any project entry and registry.
SpecMerge == InitMerge /\ [][NextMerge]_vars

(* ---------------- the response of the model and its parsing ---------------- *)
\* A response is a sequence of pieces of text, each piece one of these.
LBRACE == "{"
RBRACE == "}"
\* The three backquotes of a fence; a string of the model cannot hold a
\* backquote, so the quote character stands for it.
FENCE == "'''"
JSON_TAG == "json"
NEWLINE == "\n"
WORD == "Here"
MANIFEST == "{\"files\":[{\"path\":\"a.txt\",\"content\":\"x\"}]}"
EMPTY_MANIFEST == "{\"files\":[]}"

Pieces == {LBRACE, RBRACE, FENCE, JSON_TAG, NEWLINE, WORD, MANIFEST, EMPTY_MANIFEST}

\* The longest response, in pieces.
MaxLen == 5

Responses == UNION {[1..n -> Pieces] : n \in 0..MaxLen}

\* The manifests: up to MaxFiles files, each a path and a content.
MaxFiles == 3
FilePaths == {"a.txt", "b.txt"}
FileContents == {"x", "y"}
FileInfos == [path : FilePaths, content : FileContents]
FileLists == UNION {[1..n -> FileInfos] : n \in 0..MaxFiles}

\* The project's configuration file, as a path in project_dir, and the file
\* list of a manifest that names it.
CONFIG_PATH == ".smartgen.yml"
ConfigFileList == <<[path |-> CONFIG_PATH, content |-> "llm: {}"]>>

\* The file lists with a record that lacks its path or its content.
MalformedLists ==
    LET records == FileInfos \cup [path : FilePaths] \cup [content : FileContents]
    IN {files \in UNION {[1..n -> records] : n \in 1..2} :
            \E i \in DOMAIN files : files[i] \notin FileInfos}

\* Every file list a response of the model can spell.
RecordLists == FileLists \cup MalformedLists \cup {ConfigFileList}

\* The text of a manifest, as MANIFEST and EMPTY_MANIFEST spell it.
FileInfoText(file_info) ==
    IF ~Has(file_info, "content")
    THEN "{\"path\":\"" \o file_info["path"] \o "\"}"
    ELSE IF ~Has(file_info, "path")
    THEN "{\"content\":\"" \o file_info["content"] \o "\"}"
    ELSE "{\"path\":\"" \o file_info["path"] \o "\",\"content\":\""
            \o file_info["content"] \o "\"}"
RECURSIVE FileListText(_)
FileListText(files) ==
    IF files = <<>> THEN ""
    ELSE IF Len(files) = 1 THEN FileInfoText(files[1])
    ELSE FileInfoText(files[1]) \o "," \o FileListText(Tail(files))
ManifestText(files) == "{\"files\":[" \o FileListText(files) \o "]}"
ManifestTexts == [files \in RecordLists |-> ManifestText(files)]

\* The pieces that are the text of a JSON object, and the object of each.
JsonObjects == {ManifestTexts[files] : files \in RecordLists}
ObjectOf(piece) ==
    [files |-> CHOOSE files \in RecordLists : ManifestTexts[files] = piece]

\* The text of a JSON value that is a list.
JSON_LIST == "[1]"

RECURSIVE TextLen(_)
\* len() of the text of pieces
TextLen(pieces) ==
    IF pieces = <<>> THEN 0 ELSE Len(Head(pieces)) + TextLen(Tail(pieces))

\* The characters of piece i are at StartOf..EndOf, counted from 0.
StartOf(text, i) == TextLen(SubSeq(text, 1, i - 1))
EndOf(text, i) == StartOf(text, i) + Len(text[i]) - 1

\* text[a:b], a and b being ends of pieces
Slice(text, a, b) ==
    LET inside == {i \in 1..Len(text) : StartOf(text, i) >= a /\ EndOf(text, i) < b}
    IN [k \in 1..Cardinality(inside) |->
            text[CHOOSE i \in inside : Cardinality({j \in inside : j < i}) = k - 1]]

Min(S) == CHOOSE x \in S : \A y \in S : x <= y
Max(S) == CHOOSE x \in S : \A y \in S : x >= y

\* text.find("{") and text.rfind("}"), -1 when there is none
find_lbrace(text) ==
    LET at == {i \in 1..Len(text) : text[i] \in {LBRACE} \cup JsonObjects}
    IN IF at = {} THEN -1 ELSE StartOf(text, Min(at))
rfind_rbrace(text) ==
    LET at == {i \in 1..Len(text) : text[i] \in {RBRACE} \cup JsonObjects}
    IN IF at = {} THEN -1 ELSE EndOf(text, Max(at))

\* text.find(fence, start) for the tagged fence and the bare one, -1 when there
\* is none; start is an end of a piece.
find_fence(text, tagged, start) ==
    LET at == {i \in 1..Len(text) :
                  /\ StartOf(text, i) >= start
                  /\ text[i] = FENCE
                  /\ tagged => (i < Len(text) /\ text[i + 1] = JSON_TAG)}
    IN IF at = {} THEN -1 ELSE StartOf(text, Min(at))
fence_len(tagged) == IF tagged THEN Len(FENCE) + Len(JSON_TAG) ELSE Len(FENCE)

RECURSIVE lstrip(_)
lstrip(text) ==
    IF text /= <<>> /\ Head(text) = NEWLINE THEN lstrip(Tail(text)) ELSE text
RECURSIVE rstrip(_)
rstrip(text) ==
    IF text /= <<>> /\ text[Len(text)] = NEWLINE
    THEN rstrip(SubSeq(text, 1, Len(text) - 1)) ELSE text
\* str.strip()
strip(text) == rstrip(lstrip(text))

\* json.loads(text): white space around the value is allowed; the values the
\* pieces can spell are the objects, the empty object of a lone brace pair and
\* a list, for which is_dict is FALSE and data holds nothing.
json_loads(text) ==
    LET value == strip(text)
    IN IF Len(value) = 1 /\ value[1] \in JsonObjects
       THEN [ok |-> TRUE, data |-> ObjectOf(value[1]), is_dict |-> TRUE]
       ELSE IF value = <<JSON_LIST>>
       THEN [ok |-> TRUE, data |-> EmptyDict, is_dict |-> FALSE]
       ELSE IF /\ Len(value) >= 2
               /\ value[1] = LBRACE
               /\ value[Len(value)] = RBRACE
               /\ \A i \in 2..(Len(value) - 1) : value[i] = NEWLINE
       THEN [ok |-> TRUE, data |-> EmptyDict, is_dict |-> TRUE]
       ELSE [ok |-> FALSE, data |-> EmptyDict, is_dict |-> FALSE]

\* One turn of the loop over the fences of _parse_llm_json_response.
parse_fenced(text, tagged) ==
    IF find_fence(text, tagged, 0) = -1
    THEN [ok |-> FALSE, data |-> EmptyDict, is_dict |-> FALSE]
    ELSE LET start == find_fence(text, tagged, 0) + fence_len(tagged)
             end == find_fence(text, FALSE, start)
         IN IF end > start
            THEN json_loads(strip(Slice(text, start, end)))
            ELSE [ok |-> FALSE, data |-> EmptyDict, is_dict |-> FALSE]

\* The length of the snippet of the response in an error message.
SNIPPET_CHARS == 200
NoSnippet == [from |-> 0, to |-> 0]
\* response[max(0, json_start):min(len(response), json_start + 200)]
snippet(text, json_start) ==
    [from |-> IF json_start < 0 THEN 0 ELSE json_start,
     to |-> IF TextLen(text) < json_start + SNIPPET_CHARS
            THEN TextLen(text) ELSE json_start + SNIPPET_CHARS]

\* The last strategy of _parse_llm_json_response
parse_braces(text) ==
    LET json_start == find_lbrace(text)
        json_end == rfind_rbrace(text)
    IN IF json_start = -1 \/ json_end = -1 \/ json_end <= json_start
       THEN [ok |-> FALSE, is_dict |-> FALSE, data |-> EmptyDict, shown |-> NoSnippet,
             error |-> "LLMError: No valid JSON found in LLM response"]
       ELSE LET parsed == json_loads(Slice(text, json_start, json_end + 1))
            IN IF parsed.ok
               THEN [ok |-> TRUE, is_dict |-> parsed.is_dict, data |-> parsed.data,
                     shown |-> NoSnippet, error |-> "none"]
               ELSE [ok |-> FALSE, is_dict |-> FALSE, data |-> EmptyDict,
                     shown |-> snippet(text, json_start),
                     error |-> "LLMError: Failed to parse JSON from LLM response"]

\* LayoutGeneratorService._parse_llm_json_response
parse_llm_json_response(text) ==
    IF json_loads(text).ok
    THEN [ok |-> TRUE, is_dict |-> json_loads(text).is_dict,
          data |-> json_loads(text).data, shown |-> NoSnippet, error |-> "none"]
    ELSE IF parse_fenced(text, TRUE).ok
    THEN [ok |-> TRUE, is_dict |-> parse_fenced(text, TRUE).is_dict,
          data |-> parse_fenced(text, TRUE).data, shown |-> NoSnippet,
          error |-> "none"]
    ELSE IF parse_fenced(text, FALSE).ok
    THEN [ok |-> TRUE, is_dict |-> parse_fenced(text, FALSE).is_dict,
          data |-> parse_fenced(text, FALSE).data, shown |-> NoSnippet,
          error |-> "none"]
    ELSE parse_braces(text)

\* The parsing at the head of DomainGeneratorService._write_domain_files
parse_domain_response(llm_response) ==
    LET json_start == find_lbrace(llm_response)
        json_end == rfind_rbrace(llm_response) + 1
    IN IF json_start = -1 \/ json_end = 0
       THEN [ok |-> FALSE, is_dict |-> FALSE, data |-> EmptyDict, shown |-> NoSnippet,
             error |-> "LLMError: No JSON found in LLM response"]
       ELSE LET parsed == json_loads(Slice(llm_response, json_start, json_end))
            IN IF parsed.ok
               THEN [ok |-> TRUE, is_dict |-> parsed.is_dict, data |-> parsed.data,
                     shown |-> NoSnippet, error |-> "none"]
               ELSE [ok |-> FALSE, is_dict |-> FALSE, data |-> EmptyDict, shown |-> NoSnippet,
                     error |-> "LLMError: Failed to parse LLM response as JSON"]

\* How the file system may fail a call: not at all (at = 0), or at the
\* at-th write_text, which raises before it opens the file or after it has
\* opened it, the file then being left empty.
NoFailure == [at |-> 0, truncates |-> FALSE]
Failures(files) ==
    {NoFailure} \cup [at : 1..Len(files), truncates : BOOLEAN]

RECURSIVE write_files_keeping_existing(_, _, _, _)
\* a slip: a file that exists is not written over
write_files_keeping_existing(files, on_disk, generated_files, failure) ==
    IF files = <<>>
    THEN [disk |-> on_disk, paths |-> generated_files, raised |-> "none"]
    ELSE LET file_info == Head(files)
         IN IF failure.at = 1
            THEN [disk |-> IF failure.truncates
                           THEN Put(on_disk, file_info["path"], "") ELSE on_disk,
                  paths |-> generated_files, raised |-> "OSError"]
            ELSE write_files_keeping_existing(Tail(files),
                        IF Has(on_disk, file_info["path"]) THEN on_disk
                        ELSE Put(on_disk, file_info["path"], file_info["content"]),
                        Append(generated_files, file_info["path"]),
                        [failure EXCEPT !.at = IF @ = 0 THEN 0 ELSE @ - 1])

RECURSIVE write_files_exclusive(_, _, _, _)
\* a slip: a file that exists makes the call fail
write_files_exclusive(files, on_disk, generated_files, failure) ==
    IF files = <<>>
    THEN [disk |-> on_disk, paths |-> generated_files, raised |-> "none"]
    ELSE LET file_info == Head(files)
         IN IF failure.at = 1
            THEN [disk |-> IF failure.truncates
                           THEN Put(on_disk, file_info["path"], "") ELSE on_disk,
                  paths |-> generated_files, raised |-> "OSError"]
            ELSE IF Has(on_disk, file_info["path"])
            THEN [disk |-> on_disk, paths |-> generated_files,
                  raised |-> "FileExistsError"]
            ELSE write_files_exclusive(Tail(files),
                        Put(on_disk, file_info["path"], file_info["content"]),
                        Append(generated_files, file_info["path"]),
                        [failure EXCEPT !.at = IF @ = 0 THEN 0 ELSE @ - 1])

RECURSIVE write_files(_, _, _, _)
\* The loop over files: each file written over what is at its path, its path
\* appended to generated_files; an error of write_text leaves the loop.
write_files(files, on_disk, generated_files, failure) ==
    IF files = <<>>
    THEN [disk |-> on_disk, paths |-> generated_files, raised |-> "none"]
    ELSE LET file_info == Head(files)
         IN IF ~Has(file_info, "path")
            THEN [disk |-> on_disk, paths |-> generated_files,
                  raised |-> "KeyError: 'path'"]
            ELSE IF ~Has(file_info, "content")
            THEN [disk |-> on_disk, paths |-> generated_files,
                  raised |-> "KeyError: 'content'"]
            ELSE IF failure.at = 1
            THEN [disk |-> IF failure.truncates
                           THEN Put(on_disk, file_info["path"], "") ELSE on_disk,
                  paths |-> generated_files, raised |-> "OSError"]
            ELSE write_files(Tail(files),
                        Put(on_disk, file_info["path"], file_info["content"]),
                        Append(generated_files, file_info["path"]),
                        [failure EXCEPT !.at = IF @ = 0 THEN 0 ELSE @ - 1])

\* data.get("files", [])
files_of(parsed) ==
    IF parsed.ok /\ parsed.is_dict /\ Has(parsed.data, "files")
    THEN parsed.data["files"] ELSE <<>>

\* a slip: a manifest without files is taken as a success
write_parsed_accepting_empty(parsed, on_disk, failure) ==
    IF ~parsed.ok
    THEN [disk |-> on_disk, raised |-> parsed.error, paths |-> <<>>, attempted |-> 0,
          shown |-> parsed.shown]
    ELSE LET w == write_files(files_of(parsed), on_disk, <<>>, failure)
         IN [disk |-> w.disk, raised |-> w.raised,
             paths |-> IF w.raised = "none" THEN w.paths ELSE <<>>,
             attempted |-> IF failure.at = 0 THEN Len(files_of(parsed)) ELSE failure.at,
             shown |-> NoSnippet]

\* What follows the parsing in _write_domain_files and _write_layout_files.
write_parsed(parsed, on_disk, failure) ==
    IF ~parsed.ok
    THEN [disk |-> on_disk, raised |-> parsed.error, paths |-> <<>>, attempted |-> 0,
          shown |-> parsed.shown]
    ELSE IF ~parsed.is_dict
    THEN [disk |-> on_disk, paths |-> <<>>, attempted |-> 0, shown |-> NoSnippet,
          raised |-> "AttributeError: 'list' object has no attribute 'get'"]
    ELSE LET files == files_of(parsed)
         IN IF files = <<>>
            THEN [disk |-> on_disk, raised |-> "LLMError: No files generated by LLM",
                  paths |-> <<>>, attempted |-> 0, shown |-> NoSnippet]
            ELSE LET w == write_files(files, on_disk, <<>>, failure)
                 IN [disk |-> w.disk, raised |-> w.raised,
                     paths |-> IF w.raised = "none" THEN w.paths ELSE <<>>,
                     attempted |-> IF failure.at = 0 THEN Len(files) ELSE failure.at,
                     shown |-> NoSnippet]

\* The record of a call of either service.
Written(w, on_disk, left) ==
    [raised |-> w.raised, paths |-> w.paths, done |-> TRUE,
     before |-> on_disk, attempted |-> w.attempted, left |-> left - 1,
     shown |-> w.shown]

\* <project_dir>/.smartgen.yml after a call that left project_dir as on_disk:
\* the file is one of the files a manifest can name.
project_file_after(file, on_disk) ==
    IF ~Has(on_disk, CONFIG_PATH) THEN file
    ELSE IF on_disk[CONFIG_PATH] = "llm: {}"
    THEN FileOf(yaml_safe_dump([llm |-> EmptyDict]))
    ELSE FileOf(<<>>)

WriteDomainFiles ==
    /\ result.left > 0
    /\ \E parsed \in {parse_domain_response(response)} :
       \E failure \in Failures(files_of(parsed)) :
       \E w \in {write_parsed(parsed, disk, failure)} :
        /\ disk' = w.disk
        /\ project_file' = project_file_after(project_file, w.disk)
        /\ result' = Written(w, disk, result.left)
        /\ last' = Call("_write_domain_files", None, None, None, None, None,
                        w.raised, Before(EmptyDict, None))
    /\ UNCHANGED <<registry_vars, merge_vars, response, call_vars, side_vars>>

WriteLayoutFiles ==
    /\ result.left > 0
    /\ \E parsed \in {parse_llm_json_response(response)} :
       \E failure \in Failures(files_of(parsed)) :
       \E w \in {write_parsed(parsed, disk, failure)} :
        /\ disk' = w.disk
        /\ project_file' = project_file_after(project_file, w.disk)
        /\ result' = Written(w, disk, result.left)
        /\ last' = Call("_write_layout_files", None, None, None, None, None,
                        w.raised, Before(EmptyDict, None))
    /\ UNCHANGED <<registry_vars, merge_vars, response, call_vars, side_vars>>

InitMaterialize ==
    /\ dispatch = NotDispatched
    /\ provision = NotPulled
    /\ config_file = NoFile
    /\ project_file = NoFile
    /\ memory = EmptyDict
    /\ Aside
    /\ last = NoCall
    /\ project_entry = EmptyDict
    /\ merged = NotMerged
    /\ response \in Responses
    /\ disk = EmptyDict
    /\ result = NotWritten

NextMaterialize == WriteDomainFiles \/ WriteLayoutFiles

\* Either service writing the files of any response.
SpecMaterialize == InitMaterialize /\ [][NextMaterialize]_vars

\* The calls made one after another on one response.
MaxCalls == 2

\* What the output directory may hold before the first call.
InitialDisks == UNION {[S -> {"old"}] : S \in SUBSET FilePaths}

InitWrite ==
    /\ dispatch = NotDispatched
    /\ provision = NotPulled
    /\ config_file = NoFile
    /\ project_file = NoFile
    /\ memory = EmptyDict
    /\ Aside
    /\ last = NoCall
    /\ project_entry = EmptyDict
    /\ merged = NotMerged
    /\ response \in {<<ManifestTexts[files]>> : files \in FileLists}
    /\ disk \in InitialDisks
    /\ result = [NotWritten EXCEPT !.left = MaxCalls]

\* Either service writing the files of a manifest, more than once, on a
\* file system that may fail.
SpecWrite == InitWrite /\ [][NextMaterialize]_vars

\* The responses that parse to something other than a manifest of whole
\* records, with some whole manifests beside them.
InitReject ==
    /\ dispatch = NotDispatched
    /\ provision = NotPulled
    /\ config_file = NoFile
    /\ project_file = NoFile
    /\ memory = EmptyDict
    /\ Aside
    /\ last = NoCall
    /\ project_entry = EmptyDict
    /\ merged = NotMerged
    /\ response \in {<<ManifestTexts[files]>> : files \in MalformedLists}
                     \cup {<<JSON_LIST>>, <<FENCE, JSON_TAG, JSON_LIST, FENCE>>,
                           <<MANIFEST>>, <<WORD, MANIFEST>>}
    /\ disk \in InitialDisks
    /\ result = NotWritten

\* Either service on a response whose JSON is not a manifest of whole records.
SpecReject == InitReject /\ [][NextMaterialize]_vars

(* ---------------- generate_domain and the call of the backend ---------------- *)
\* model.startswith(prefix)
startswith(model, prefix) ==
    Len(model) >= Len(prefix) /\ SubSeq(model, 1, Len(prefix)) = prefix

codex_models ==
    {"code-davinci-002", "code-davinci-001", "code-cushman-002", "code-cushman-001"}

\* a slip: only the listed names are taken as Codex models
is_codex_model_by_list_only(model) == model \in codex_models

\* _is_codex_model
is_codex_model(model) == model \in codex_models \/ startswith(model, "code-")

\* The model names of the provider entries, None for an entry without one.
ModelNames ==
    {"code-davinci-002", "code-cushman-001", "code-x", "codex", "gpt-code-1",
     "gpt-4", "claude-x"}

\* The call _call_llm makes for a provider entry, or the error it raises
\* before any call: libraries are the client libraries that can be imported.
call_llm(provider_config, libraries) ==
    LET provider_type == Get(provider_config, "type")
    IN IF provider_type = "local"
       THEN IF "ollama" \notin libraries
            THEN [raised |-> "LLMError: ollama package not installed"]
            ELSE [raised |-> "none",
                  call |-> [api |-> "ollama.chat",
                            model |-> IF Has(provider_config, "model")
                                      THEN provider_config["model"]
                                      ELSE DEFAULT_LOCAL_MODEL,
                            messages |-> <<"user">>]]
       ELSE IF provider_type = "cloud"
       THEN IF "openai" \notin libraries
            THEN [raised |-> "ModuleNotFoundError: openai"]
            ELSE LET model == IF Has(provider_config, "model")
                              THEN provider_config["model"] ELSE "gpt-4"
                 IN IF is_codex_model(model)
                    THEN [raised |-> "none",
                          call |-> [api |-> "completions", model |-> model,
                                    messages |-> <<>>]]
                    ELSE [raised |-> "none",
                          call |-> [api |-> "chat.completions", model |-> model,
                                    messages |-> <<"system", "user">>]]
       ELSE [raised |-> "LLMError: Unsupported provider type"]

\* a slip: the requirements document is not looked at
resolve_provider_skipping_srs(project, global_config, srs, policy) ==
    IF ~project.exists THEN [raised |-> "MissingProjectConfigError"]
    ELSE LET config == yaml_safe_load(project.text)
             llm_config == IF Has(config, "llm") THEN config["llm"] ELSE EmptyDict
             default_provider == Get(llm_config, "default")
             entries == IF Has(llm_config, "providers")
                        THEN llm_config["providers"] ELSE EmptyDict
         IN IF ~Truthy(default_provider)
            THEN [raised |-> "GeneratorError: No default LLM provider configured"]
            ELSE IF ~Has(entries, default_provider)
                    \/ DOMAIN entries[default_provider] = {}
            THEN [raised |-> "GeneratorError: Provider not found in configuration"]
            ELSE IF ~policy THEN [raised |-> "MissingPolicyError"]
            ELSE [raised |-> "none",
                  provider |-> merge_with_global_config(global_config,
                                   default_provider,
                                   entries[default_provider]).merged_config]

\* generate_domain up to the call of the backend: the error it raises, or the
\* provider entry it calls with.
resolve_provider(project, global_config, srs, policy) ==
    IF ~project.exists THEN [raised |-> "MissingProjectConfigError"]
    ELSE LET config == yaml_safe_load(project.text)
             llm_config == IF Has(config, "llm") THEN config["llm"] ELSE EmptyDict
             default_provider == Get(llm_config, "default")
             entries == IF Has(llm_config, "providers")
                        THEN llm_config["providers"] ELSE EmptyDict
         IN IF ~Truthy(default_provider)
            THEN [raised |-> "GeneratorError: No default LLM provider configured"]
            ELSE IF ~Has(entries, default_provider)
                    \/ DOMAIN entries[default_provider] = {}
            THEN [raised |-> "GeneratorError: Provider not found in configuration"]
            ELSE IF srs /= "ok" THEN [raised |-> "MissingSRSError"]
            ELSE IF ~policy THEN [raised |-> "MissingPolicyError"]
            ELSE [raised |-> "none",
                  provider |-> merge_with_global_config(global_config,
                                   default_provider,
                                   entries[default_provider]).merged_config]

\* a slip: a failed call is made once more before the error is raised
call_failed_retrying(d) ==
    IF Len(d.calls) < 2
    THEN [d EXCEPT !.calls = Append(@, d.calls[Len(d.calls)])]
    ELSE [d EXCEPT !.pc = "failed", !.raised = "LLMError: Failed to call Ollama"]

\* The except clauses of _call_ollama and _call_cloud_provider.
call_failed(d) ==
    [d EXCEPT !.pc = "failed",
              !.raised = IF d.calls[Len(d.calls)].api = "ollama.chat"
                         THEN "LLMError: Failed to call Ollama"
                         ELSE "LLMError: Failed to call cloud provider"]

\* generate_domain, from its start to the call it sends to the backend.
GenerateDomain ==
    /\ dispatch.pc = "idle"
    /\ \E r \in {resolve_provider(project_file, load_config(config_file),
                                  dispatch.srs, dispatch.policy)} :
        IF r.raised /= "none"
        THEN dispatch' = [dispatch EXCEPT !.pc = "failed", !.raised = r.raised]
        ELSE \E c \in {call_llm(r.provider, dispatch.libraries)} :
                IF c.raised /= "none"
                THEN dispatch' = [dispatch EXCEPT !.pc = "failed",
                                                  !.raised = c.raised,
                                                  !.provider = r.provider]
                ELSE dispatch' = [dispatch EXCEPT !.pc = "sent",
                                                  !.calls = Append(@, c.call),
                                                  !.provider = r.provider]
    /\ UNCHANGED <<registry_vars, project_vars, merge_vars, write_vars, last, provision, side_vars>>

\* What a backend may answer.
BackendResponses ==
    {<<>>, <<WORD>>, <<MANIFEST>>, <<WORD, MANIFEST, WORD>>,
     <<ManifestTexts[ConfigFileList]>>}

\* The backend answers and generate_domain writes the files of the answer.
BackendReturns ==
    /\ dispatch.pc = "sent"
    /\ \E text \in BackendResponses :
       \E parsed \in {parse_domain_response(text)} :
       \E failure \in Failures(files_of(parsed)) :
       \E w \in {write_parsed(parsed, disk, failure)} :
        /\ response' = text
        /\ disk' = w.disk
        /\ project_file' = project_file_after(project_file, w.disk)
        /\ result' = Written(w, disk, result.left)
        /\ dispatch' = [dispatch EXCEPT
                            !.pc = IF w.raised = "none" THEN "done" ELSE "failed",
                            !.raised = w.raised]
    /\ UNCHANGED <<registry_vars, merge_vars, last, provision, side_vars>>

\* The call of the backend raises.
BackendFails ==
    /\ dispatch.pc = "sent"
    /\ dispatch' = call_failed(dispatch)
    /\ UNCHANGED <<registry_vars, project_vars, merge_vars, write_vars, last, provision, side_vars>>

\* The provider entries of a project file, and the project files.
GenerateEntries ==
    UNION {{IF m = None THEN [type |-> t] ELSE [type |-> t, model |-> m] :
                m \in {None} \cup ModelNames} :
           t \in {"local", "cloud", "remote"}}
GenerateProjectFiles ==
    {NoFile,
     FileOf(yaml_safe_dump([llm |-> [providers |-> [n \in {"openai"} |->
                                                      [type |-> "cloud"]]]])),
     FileOf(yaml_safe_dump([llm |-> [default |-> "ollama",
                                     providers |-> [n \in {"openai"} |->
                                                      [type |-> "cloud"]]]]))}
    \cup {FileOf(yaml_safe_dump(config_payload("openai", entry))) :
            entry \in GenerateEntries}

InitGenerate ==
    /\ config_file \in
          {NoFile, save_config(add_provider(EmptyDict, "openai", "cloud",
                                            "sk-1", None, None))}
    /\ project_file \in GenerateProjectFiles
    /\ memory = EmptyDict
    /\ Aside
    /\ last = NoCall
    /\ project_entry = EmptyDict
    /\ merged = NotMerged
    /\ response = <<>>
    /\ disk \in {EmptyDict, [p \in {"a.txt"} |-> "old"]}
    /\ result = NotWritten
    /\ dispatch \in {[NotDispatched EXCEPT !.srs = s, !.policy = p, !.libraries = l] :
                        s \in {"ok", "missing", "empty"}, p \in BOOLEAN,
                        l \in {{"ollama", "openai"}, {"ollama"}, {"openai"}}}
    /\ provision = NotPulled

NextGenerate == GenerateDomain \/ BackendReturns \/ BackendFails

\* One generate_domain on any project file, and its one backend.
SpecGenerate == InitGenerate /\ [][NextGenerate]_vars

(* ---------------- _pull_ollama_model ---------------- *)
\* provision is one call of _pull_ollama_model with its backend:
\*   sink     the progress callback: "none", or one that may raise ("raising")
\*            or never does ("quiet")
\*   streams  whether client.pull accepts stream=True
\*   stream   the payloads the iterator has still to yield, and ends: what it
\*            does after them ("ok" it ends, "error" it raises, "never" it blocks)
\*   answer   what client.pull(model) does on the worker thread
\*   clock    time.monotonic(), start the time the current wait is measured from
\*   worker   the worker thread of the executor
\*   calls    the calls of client.pull made, seen the payloads received,
\*            sunk the calls of the sink
OLLAMA_PULL_TIMEOUT_SECONDS == 600
TickSeconds == 300
MaxClock == 1200
MaxPayloads == 2

\* What the iterator may yield: a dict, an object with model_dump(), an object
\* with dict(), and a value that is none of them.
PayloadKinds == {"dict", "model_dump", "dict_method", "str"}

\* normalized_payload is not None
normalized(payload) == payload \in {"dict", "model_dump", "dict_method"}

\* executor.submit(client.pull, model); future.result(timeout=...)
submit_blocking(p) ==
    [p EXCEPT !.calls = Append(@, "pull(model)"), !.worker = "running",
              !.start = p.clock, !.pc = "waiting"]

\* a slip: an exception of the sink leaves the loop
receive_propagating(p, payload, raises) ==
    LET q == [p EXCEPT !.stream = Tail(@), !.seen = Append(@, payload),
                       !.sunk = IF normalized(payload)
                                THEN Append(@, [payload |-> payload,
                                                raised |-> raises])
                                ELSE @]
    IN IF normalized(payload) /\ raises
       THEN [q EXCEPT !.pc = "done",
                      !.outcome = "LLMInitError: Failed to pull model"]
       ELSE IF p.clock - p.start > OLLAMA_PULL_TIMEOUT_SECONDS
       THEN [q EXCEPT !.pc = "done",
                      !.outcome = "LLMInitError: Ollama pull timed out"]
       ELSE q

\* One turn of the loop of _pull_ollama_model_streaming.
receive(p, payload, raises) ==
    LET q == [p EXCEPT !.stream = Tail(@), !.seen = Append(@, payload),
                       !.sunk = IF normalized(payload)
                                THEN Append(@, [payload |-> payload,
                                                raised |-> raises])
                                ELSE @]
    IN IF p.clock - p.start > OLLAMA_PULL_TIMEOUT_SECONDS
       THEN [q EXCEPT !.pc = "done",
                      !.outcome = "LLMInitError: Ollama pull timed out"]
       ELSE q

\* _pull_ollama_model up to its first wait for the backend.
PullOllamaModel ==
    /\ provision.pc = "idle"
    /\ provision' =
          IF provision.sink /= "none"
          THEN LET p == [provision EXCEPT !.start = provision.clock,
                                          !.calls = <<"pull(model, stream=True)">>]
               IN IF provision.streams
                  THEN [p EXCEPT !.pc = "iterating"]
                  ELSE submit_blocking(p)
          ELSE submit_blocking(provision)
    /\ UNCHANGED <<registry_vars, project_vars, merge_vars, write_vars, last, dispatch, side_vars>>

\* The iterator yields a payload.
StreamYields ==
    /\ provision.pc = "iterating"
    /\ provision.stream /= <<>>
    /\ \E raises \in IF provision.sink = "raising" THEN BOOLEAN ELSE {FALSE} :
          provision' = receive(provision, Head(provision.stream), raises)
    /\ UNCHANGED <<registry_vars, project_vars, merge_vars, write_vars, last, dispatch, side_vars>>

\* The iterator ends or raises.
StreamEnds ==
    /\ provision.pc = "iterating"
    /\ provision.stream = <<>>
    /\ provision.ends \in {"ok", "error"}
    /\ provision' =
          IF provision.ends = "error"
          THEN [provision EXCEPT !.pc = "done",
                                 !.outcome = "LLMInitError: Failed to pull model"]
          ELSE IF provision.seen = <<>>
          THEN submit_blocking(provision)
          ELSE [provision EXCEPT !.pc = "done", !.outcome = "returned",
                                 !.returned = provision.seen[Len(provision.seen)]]
    /\ UNCHANGED <<registry_vars, project_vars, merge_vars, write_vars, last, dispatch, side_vars>>

\* client.pull(model) returns or raises on the worker thread.
WorkerFinishes ==
    /\ provision.worker = "running"
    /\ provision.answer \in {"ok", "error"}
    /\ provision' = [provision EXCEPT !.worker = "done"]
    /\ UNCHANGED <<registry_vars, project_vars, merge_vars, write_vars, last, dispatch, side_vars>>

\* future.result returns what the worker returned, or raises what it raised.
FutureReturns ==
    /\ provision.pc = "waiting"
    /\ provision.worker = "done"
    /\ provision' =
          IF provision.answer = "error"
          THEN [provision EXCEPT !.pc = "done",
                                 !.outcome = "LLMInitError: Failed to pull model"]
          ELSE [provision EXCEPT !.pc = "done", !.outcome = "returned",
                                 !.returned = "response"]
    /\ UNCHANGED <<registry_vars, project_vars, merge_vars, write_vars, last, dispatch, side_vars>>

\* future.result raises TimeoutError; the with statement then leaves the
\* executor, which is shutdown(wait=True).
FutureTimesOut ==
    /\ provision.pc = "waiting"
    /\ provision.worker = "running"
    /\ provision.clock - provision.start >= OLLAMA_PULL_TIMEOUT_SECONDS
    /\ provision' = [provision EXCEPT !.pc = "shutdown"]
    /\ UNCHANGED <<registry_vars, project_vars, merge_vars, write_vars, last, dispatch, side_vars>>

\* shutdown(wait=True) returns once the worker has finished, and the
\* TimeoutError reaches the except clause.
ExecutorExits ==
    /\ provision.pc = "shutdown"
    /\ provision.worker = "done"
    /\ provision' = [provision EXCEPT !.pc = "done",
                                      !.outcome = "LLMInitError: Ollama pull timed out"]
    /\ UNCHANGED <<registry_vars, project_vars, merge_vars, write_vars, last, dispatch, side_vars>>

\* Time passes while the call waits.
Tick ==
    /\ provision.pc \in {"iterating", "waiting", "shutdown"}
    /\ provision.clock + TickSeconds <= MaxClock
    /\ provision' = [provision EXCEPT !.clock = @ + TickSeconds]
    /\ UNCHANGED <<registry_vars, project_vars, merge_vars, write_vars, last, dispatch, side_vars>>

\* The sinks and backends of a call.
PullEnvironments ==
    {[NotPulled EXCEPT !.sink = sink, !.streams = streams, !.stream = stream,
                       !.ends = ends, !.answer = answer] :
        sink \in {"none", "quiet", "raising"}, streams \in BOOLEAN,
        stream \in UNION {[1..n -> PayloadKinds] : n \in 0..MaxPayloads},
        ends \in {"ok", "error", "never"}, answer \in {"ok", "error", "never"}}

InitPull ==
    /\ config_file = NoFile
    /\ project_file = NoFile
    /\ memory = EmptyDict
    /\ Aside
    /\ last = NoCall
    /\ project_entry = EmptyDict
    /\ merged = NotMerged
    /\ response = <<>>
    /\ disk = EmptyDict
    /\ result = NotWritten
    /\ dispatch = NotDispatched
    /\ provision \in PullEnvironments

NextPull ==
    \/ PullOllamaModel \/ StreamYields \/ StreamEnds \/ WorkerFinishes
    \/ FutureReturns \/ FutureTimesOut \/ ExecutorExits \/ Tick

\* One call of _pull_ollama_model, on any sink and backend.
SpecPull == InitPull /\ [][NextPull]_vars

\* The same, where a thread that can take a step takes one and time goes on.
SpecPullFair == SpecPull /\ WF_vars(NextPull)

(* ---------------- _build_prompt ---------------- *)

\* The most prompts one behaviour builds.
MaxBuilds == 2

PromptTexts == {"T1", "T2"}
PromptPaths == {"a.py", "b.py"}

\* _read_domain_files returns a dict: its items come in insertion order and no
\* path comes twice.
DomainFilesContents ==
    {<<>>} \cup
    {<<[path |-> f, content |-> c]>> : f \in PromptPaths, c \in PromptTexts} \cup
    {<<[path |-> "a.py", content |-> c], [path |-> "b.py", content |-> d]>> :
        c \in PromptTexts, d \in PromptTexts} \cup
    {<<[path |-> "b.py", content |-> c], [path |-> "a.py", content |-> d]>> :
        c \in PromptTexts, d \in PromptTexts}

RECURSIVE domain_files_items(_)
domain_files_items(items) ==
    IF items = <<>> THEN ""
    ELSE "\n## " \o Head(items).path \o "\n'''python\n" \o Head(items).content
         \o "\n'''\n" \o domain_files_items(Tail(items))

domain_files_section(domain_files_content) ==
    IF domain_files_content = <<>> THEN ""
    ELSE "\n# Existing Domain Layer Files:\n"
         \o domain_files_items(domain_files_content)

\* a slip: the prompt carries how many prompts the service built before
build_prompt_numbered(self, srs_content, policy_content, domain_files_content) ==
    IF self.earlier = 0 THEN "first\n" \o policy_content \o srs_content
    ELSE "again\n" \o policy_content \o srs_content

\* DomainGeneratorService._build_prompt and LayoutGeneratorService._build_prompt;
\* the domain service takes no domain files.  self stands for all the call can
\* see besides its arguments.
build_prompt(self, srs_content, policy_content, domain_files_content) ==
    IF self.service = "domain"
    THEN "You are a domain modeling expert.\n\n# DDD Policy and Guidelines:\n"
         \o policy_content
         \o "\n\n# Software Requirements Specification:\n"
         \o srs_content
         \o "\n\n# Instructions:\nGenerate the domain layer code now:"
    ELSE "You are a software architect.\n\n# Layout Policy and Guidelines:\n"
         \o policy_content
         \o "\n\n# Software Requirements Specification:\n"
         \o srs_content \o "\n"
         \o domain_files_section(domain_files_content)
         \o "\n# Instructions:\nGenerate the application layout structure now:"

\* One call of _build_prompt, by either service, on any inputs.
BuildPrompt ==
    /\ Len(prompts) < MaxBuilds
    /\ \E service \in {"domain", "layout"}, srs_content \in PromptTexts,
          policy_content \in PromptTexts,
          domain_files_content \in DomainFilesContents :
        /\ service = "domain" => domain_files_content = <<>>
        /\ prompts' = Append(prompts,
              [service |-> service, srs_content |-> srs_content,
               policy_content |-> policy_content,
               domain_files_content |-> domain_files_content,
               prompt |-> build_prompt(
                   [service |-> service, earlier |-> Len(prompts)],
                   srs_content, policy_content, domain_files_content)])
    /\ UNCHANGED <<registry_vars, project_vars, merge_vars, write_vars, last,
                   call_vars, progress, procs>>

InitPrompt ==
    /\ config_file \in {NoFile, save_config(add_provider(EmptyDict, "openai",
                                            "cloud", "sk-1", None, None))}
    /\ project_file \in {NoFile, FileOf(yaml_safe_dump(sample_smartgen_config))}
    /\ disk \in {EmptyDict, [f \in {"src/domain/a.py"} |-> "old"]}
    /\ dispatch = NotDispatched
    /\ provision = NotPulled
    /\ memory = EmptyDict
    /\ Aside
    /\ last = NoCall
    /\ project_entry = EmptyDict
    /\ merged = NotMerged
    /\ response = <<>>
    /\ result = NotWritten

SpecPrompt == InitPrompt /\ [][BuildPrompt]_vars

(* ---------------- the progress callback of the init command ---------------- *)

\* The most payloads one behaviour delivers, and the largest size a payload names.
MaxUpdates == 3
MaxAmount == 2

Digests == {"sha256:a", "sha256:b"}
Statuses == {"pulling", "success"}

\* A payload is a dict; a field it lacks (or holds None for) is a missing key.
payload_of(digest, total, completed, status) ==
    [k \in (IF digest = None THEN {} ELSE {"digest"})
           \cup (IF total < 0 THEN {} ELSE {"total"})
           \cup (IF completed < 0 THEN {} ELSE {"completed"})
           \cup (IF status = None THEN {} ELSE {"status"}) |->
        CASE k = "digest" -> digest
          [] k = "total" -> total
          [] k = "completed" -> completed
          [] OTHER -> status]

ProgressPayloads ==
    {payload_of(digest, total, completed, status) :
        digest \in Digests \cup {None}, total \in -1..MaxAmount,
        completed \in -1..MaxAmount, status \in Statuses \cup {None}}

\* sum(d.values())
RECURSIVE sum_values(_)
sum_values(d) ==
    IF DOMAIN d = {} THEN 0
    ELSE LET k == CHOOSE x \in DOMAIN d : TRUE
         IN d[k] + sum_values([x \in DOMAIN d \ {k} |-> d[x]])

\* f"{(sum_completed / sum_total) * 100:>3.0f}": the nearest whole number, a
\* tie going to the even one (the float product is exact enough for that
\* whenever sum_total is below 40).
percent_of(sum_completed, sum_total) ==
    LET q == (100 * sum_completed) \div sum_total
        r == (100 * sum_completed) % sum_total
    IN IF 2 * r < sum_total THEN q
       ELSE IF 2 * r > sum_total THEN q + 1
       ELSE IF q % 2 = 0 THEN q ELSE q + 1

\* _callback(payload) of _build_progress_callback.  The task's total and its
\* percent_text are <<>> for None and " --%", <<n>> for a number.
callback(state, payload) ==
    LET digest_totals ==
            IF Has(payload, "digest") /\ Has(payload, "total")
            THEN Put(state.digest_totals, payload["digest"], payload["total"])
            ELSE state.digest_totals
        digest_completed ==
            IF Has(payload, "digest") /\ Has(payload, "completed")
            THEN Put(state.digest_completed, payload["digest"],
                     payload["completed"])
            ELSE state.digest_completed
        sum_total == sum_values(digest_totals)
        sum_completed == sum_values(digest_completed)
        sized ==
            IF sum_total > 0
            THEN [state.task EXCEPT
                    !.total = <<sum_total>>,
                    !.completed = Min({sum_completed, sum_total})]
            ELSE state.task
        described ==
            IF Has(payload, "status")
            THEN [sized EXCEPT !.description =
                    "Pulling Ollama model (" \o payload["status"] \o ")"]
            ELSE sized
    IN [state EXCEPT
          !.digest_totals = digest_totals,
          !.digest_completed = digest_completed,
          !.task = [described EXCEPT !.percent_text =
                      IF sum_total > 0
                      THEN <<percent_of(sum_completed, sum_total)>>
                      ELSE <<>>]]

\* The pull delivers one payload to the callback.  recent and status record
\* what the payloads said: for each digest the last total and the last
\* completed size named for it, and the last status text.
ProgressCallback ==
    /\ progress.payloads < MaxUpdates
    /\ \E payload \in ProgressPayloads :
        progress' =
            [callback(progress, payload) EXCEPT
               !.payloads = @ + 1,
               !.recent =
                  [total |->
                      IF Has(payload, "digest") /\ Has(payload, "total")
                      THEN Put(@.total, payload["digest"], payload["total"])
                      ELSE @.total,
                   completed |->
                      IF Has(payload, "digest") /\ Has(payload, "completed")
                      THEN Put(@.completed, payload["digest"],
                               payload["completed"])
                      ELSE @.completed],
               !.status = IF Has(payload, "status") THEN payload["status"]
                          ELSE @]
    /\ UNCHANGED <<registry_vars, project_vars, merge_vars, write_vars, last,
                   call_vars, prompts, procs>>

\* The command starts on a machine where nothing is configured.
SpecProgress == Init /\ [][ProgressCallback]_vars

(* ---------------- two processes on one registry ---------------- *)

\* The most registry calls the two processes begin between them.
MaxOps == 4

Pids == {1, 2}
RegistryOps == {"add_provider", "set_default_provider", "remove_provider"}

\* The dict the call holds after its change, from the dict it loaded.
changed_by(op, config, name, provider_type) ==
    CASE op = "add_provider" ->
            add_provider(config, name, provider_type, None, None, None)
      [] op = "set_default_provider" -> set_default_provider(config, name)
      [] OTHER -> remove_provider(config, name)

\* The call ends without a save: it raised, or remove_provider found no "llm".
ends_unsaved(op, config, name) ==
    CASE op = "add_provider" -> FALSE
      [] op = "set_default_provider" -> set_default_raises(config, name)
      [] OTHER -> remove_returns_early(config) \/ remove_raises(config, name)

\* A process begins a call: load_config() and the change, made on its own dict.
ProcessLoads ==
    /\ procs.ops < MaxOps
    /\ \E pid \in Pids, op \in RegistryOps, name \in Names,
          provider_type \in {"cloud"} :
        /\ procs.run[pid].pc = "idle"
        /\ \E config \in {load_config(config_file)} :
            procs' =
                [procs EXCEPT
                   !.ops = @ + 1,
                   !.run[pid] =
                      IF ends_unsaved(op, config, name)
                      THEN [pc |-> "idle", op |-> op, loaded |-> config,
                            config |-> config]
                      ELSE [pc |-> "loaded", op |-> op, loaded |-> config,
                            config |-> changed_by(op, config, name,
                                                  provider_type)]]
    /\ UNCHANGED <<registry_vars, project_vars, merge_vars, write_vars, last,
                   call_vars, progress, prompts>>

\* The process ends its call: save_config(config) writes its whole dict.
\* overwrote records that the file was no longer the one the process loaded.
ProcessSaves ==
    \E pid \in Pids :
        /\ procs.run[pid].pc = "loaded"
        /\ config_file' = save_config(procs.run[pid].config)
        /\ memory' = procs.run[pid].config
        /\ procs' =
              [procs EXCEPT
                 !.run[pid].pc = "idle",
                 !.overwrote = load_config(config_file) /= procs.run[pid].loaded,
                 !.saves = @ + 1]
        /\ UNCHANGED <<project_vars, merge_vars, write_vars, last, call_vars,
                       progress, prompts>>

NextConcurrent == ProcessLoads \/ ProcessSaves

\* Both processes start on an empty registry.
SpecConcurrent == Init /\ [][NextConcurrent]_vars

(* ---------------- the registry as the next load_config() reads it -------- *)
registry == load_config(config_file)
providers == ProvidersOf(registry)
default_provider == DefaultOf(registry)

(* ======================= the provider registry ======================= *)

\* C1: after any sequence of add_provider, set_default_provider,
\* remove_provider and update_llm_config calls from an empty registry, a
\* default provider that is set names a key of the providers mapping.
C1_DefaultIsAProvider ==
    default_provider /= None => default_provider \in DOMAIN providers

\* update_llm_config has moved the default to a second provider
C1_Witness ==
    /\ last.op = "update_llm_config"
    /\ ~last.before.was_default
    /\ default_provider = last.name
    /\ Cardinality(DOMAIN providers) = 2

\* C4: adding the first provider to an empty registry makes it the default;
\* adding a second provider, of another name, leaves the default as it was.
C4_FirstProviderBecomesDefault ==
    [][last'.op = "add_provider" =>
        \A pre \in {registry} :
        Cardinality(DOMAIN ProvidersOf(pre)) <= 1 =>
            \A post \in {registry'} :
            /\ (DOMAIN ProvidersOf(pre) = {} => DefaultOf(post) = last'.name)
            /\ ((Cardinality(DOMAIN ProvidersOf(pre)) = 1
                    /\ last'.name \notin DOMAIN ProvidersOf(pre))
                => DefaultOf(post) = DefaultOf(pre))]_vars

\* a second provider has been added and the first is still the default
C4_Witness ==
    /\ last.op = "add_provider"
    /\ ~last.before.existed
    /\ Cardinality(DOMAIN providers) = 2
    /\ default_provider \in DOMAIN providers \ {last.name}

\* C5: remove_provider of a present name deletes that entry and no other;
\* the default is cleared when it was that name, with no other provider
\* promoted, and is left alone otherwise.
C5_RemoveDeletesOnlyThatEntry ==
    [][last'.op = "remove_provider" =>
        \A pre \in {registry}, post \in {registry'} :
        last'.name \in DOMAIN ProvidersOf(pre) =>
            /\ last'.raised = "none"
            /\ ProvidersOf(post) = Del(ProvidersOf(pre), last'.name)
            /\ DefaultOf(post) =
                  IF DefaultOf(pre) = last'.name THEN None ELSE DefaultOf(pre)]_vars

\* the default was removed while another provider remains
C5_Witness ==
    /\ last.op = "remove_provider"
    /\ last.raised = "none"
    /\ last.before.existed
    /\ last.before.was_default
    /\ DOMAIN providers /= {}
    /\ default_provider = None

\* C6: remove_provider of a name that is not in providers fails with the
\* not-found error and leaves the registry file as it was, in every state.
C6_RemoveAbsentRaises ==
    [][last'.op = "remove_provider" =>
        \A pre \in {registry} :
        last'.name \notin DOMAIN ProvidersOf(pre) =>
            /\ last'.raised = "ValueError"
            /\ config_file' = config_file]_vars

\* C7: set_default_provider of an absent name fails with the not-found error
\* and leaves the registry file as it was; of a present name it sets the
\* default to that name and leaves the providers mapping as it was.
C7_SetDefault ==
    [][last'.op = "set_default_provider" =>
        \A pre \in {registry}, post \in {registry'} :
        IF last'.name \notin DOMAIN ProvidersOf(pre)
        THEN /\ last'.raised = "ValueError"
             /\ config_file' = config_file
        ELSE /\ last'.raised = "none"
             /\ DefaultOf(post) = last'.name
             /\ ProvidersOf(post) = ProvidersOf(pre)]_vars

\* a name that is absent was refused while another provider is the default
C7_Witness ==
    /\ last.op = "set_default_provider"
    /\ last.raised = "ValueError"
    /\ ~last.before.existed
    /\ default_provider \in DOMAIN providers

\* The entry the arguments of the last add_provider call describe.
C8_EntryOfArguments ==
    LET local == last.ptype = "local"
        fields == {"type"}
                  \cup (IF last.api_key /= None THEN {"api_key"} ELSE {})
                  \cup (IF last.model /= None \/ local THEN {"model"} ELSE {})
                  \cup (IF last.url /= None \/ local THEN {"url"} ELSE {})
    IN [f \in fields |->
          CASE f = "type" -> last.ptype
            [] f = "api_key" -> last.api_key
            [] f = "model" -> IF last.model /= None THEN last.model
                              ELSE "deepseek-coder-v2"
            [] f = "url" -> IF last.url /= None THEN last.url
                            ELSE "http://localhost:11434"]

C8_SameArguments ==
    /\ last.op = "add_provider" /\ last'.op = "add_provider"
    /\ last'.name = last.name /\ last'.ptype = last.ptype
    /\ last'.api_key = last.api_key
    /\ last'.model = last.model /\ last'.url = last.url

\* C8: add_provider on an existing name replaces the entry: the stored entry
\* is the one the arguments and the per-kind defaults describe, whatever was
\* stored before; the same call made twice leaves the registry of the first.
C8_AddReplacesEntry ==
    /\ [](last.op = "add_provider" => providers[last.name] = C8_EntryOfArguments)
    /\ [][C8_SameArguments => config_file' = config_file]_vars

\* an entry that held a secret was overwritten by a call that gave none
C8_Witness ==
    /\ last.op = "add_provider"
    /\ last.before.existed
    /\ last.before.had_key
    /\ last.api_key = None
    /\ ~Has(providers[last.name], "api_key")

\* C9: what load_config() reads is the dict the last call that returned
\* normally held (save_config(c) then load_config() gives c; every mutation
\* has written its whole result), and with no file it reads the empty dict.
C9_StoreHoldsTheResult ==
    /\ (~config_file.exists => registry = EmptyDict)
    /\ (last.raised = "none" => registry = memory)

\* the dict of tests/test_config.py was saved and is read back
C9_Witness ==
    /\ last.op = "save_config"
    /\ registry = [llm |-> [default |-> "test"]]

(* ======================= project initialisation ======================= *)

\* The provider entries of the project file that hold a sensitive field.
C2_EntriesWithSecret ==
    LET provs == ProvidersOf(yaml_safe_load(project_file.text))
    IN {n \in DOMAIN provs :
            (DOMAIN provs[n]) \cap {"api_key", "api_secret", "token", "password"} /= {}}

\* C2: the project file that initialize writes holds no provider secret
\* (api_key or another sensitive field), whatever the kind of the provider.
C2_NoSecretInProjectFile ==
    (last.op = "initialize" /\ last.raised = "none") => C2_EntriesWithSecret = {}

(* ======================= the secret merge ======================= *)

C3_RegistryEntry ==
    IF Has(providers, last.name) THEN providers[last.name] ELSE EmptyDict

\* C3: the dict returned is the project entry with each secret field that it
\* lacks taken from the registry entry of the same name; a secret field both
\* define keeps the project's value; every other field is the project's, none
\* added and none overwritten; the dict passed in is left as it was.
C3_SecretMergePrecedence ==
    merged.done =>
        LET p == merged.given
            g == C3_RegistryEntry
            m == merged.returned
            secret == {"api_key", "api_secret", "token", "password"}
        IN /\ \A f \in secret :
                IF Has(p, f) THEN Has(m, f) /\ m[f] = p[f]
                ELSE IF Has(g, f) THEN Has(m, f) /\ m[f] = g[f]
                ELSE ~Has(m, f)
           /\ (DOMAIN m) \ secret = (DOMAIN p) \ secret
           /\ \A f \in (DOMAIN p) \ secret : m[f] = p[f]
           /\ project_entry = p

\* one secret came from the registry and another, defined by both, from the
\* project
C3_Witness ==
    /\ merged.done
    /\ ~Has(merged.given, "api_key")
    /\ Has(merged.returned, "api_key")
    /\ merged.returned["api_key"] = C3_RegistryEntry["api_key"]
    /\ Has(merged.given, "token")
    /\ Has(C3_RegistryEntry, "token")
    /\ C3_RegistryEntry["token"] /= merged.given["token"]
    /\ merged.returned["token"] = merged.given["token"]

(* ======================= the files of a response ======================= *)

\* The response is the manifest in a fenced block, tagged json or not, with
\* prose around the block.
C10_FencedInsideProse ==
    \E i, j \in 1..Len(response) :
        /\ i < j
        /\ response[i] = FENCE
        /\ response[j] = FENCE
        /\ LET inner == SubSeq(response, i + 1, j - 1)
           IN \/ strip(inner) = <<MANIFEST>>
              \/ inner /= <<>> /\ Head(inner) = JSON_TAG
                               /\ strip(Tail(inner)) = <<MANIFEST>>
        /\ \A k \in (1..Len(response)) \ (i..j) :
              response[k] \in {WORD, NEWLINE, LBRACE, RBRACE}

\* C10: the response is parsed whole, else by its first fenced block, else
\* from its first "{" to its last "}"; so the manifest fenced inside prose
\* gives the files that the bare manifest gives, the file system not failing.
C10_FencedManifestIsWritten ==
    (result.done /\ result.raised /= "OSError" /\ C10_FencedInsideProse) =>
        /\ result.raised = "none"
        /\ result.paths = <<"a.txt">>
        /\ disk = [p \in {"a.txt"} |-> "x"]

\* What the service called last parsed out of the response.
ParsedByLast ==
    IF last.op = "_write_domain_files"
    THEN parse_domain_response(response) ELSE parse_llm_json_response(response)

\* C11: when the JSON parsed has no "files" key, or an empty list under it,
\* the call raises the error of an empty manifest and writes no file.
C11_EmptyManifestRaises ==
    (/\ result.done
     /\ ParsedByLast.ok
     /\ (~Has(ParsedByLast.data, "files") \/ ParsedByLast.data["files"] = <<>>))
    => /\ result.raised = "LLMError: No files generated by LLM"
       /\ result.paths = <<>>
       /\ disk = result.before

\* the object parsed, out of a fenced block, has no "files" key
C11_Witness ==
    /\ result.done
    /\ ParsedByLast.ok
    /\ ~Has(ParsedByLast.data, "files")
    /\ FENCE \in {response[i] : i \in 1..Len(response)}
    /\ result.raised = "LLMError: No files generated by LLM"

\* The errors of a response that no strategy could parse.
ParseErrors ==
    {"LLMError: No valid JSON found in LLM response",
     "LLMError: Failed to parse JSON from LLM response",
     "LLMError: No JSON found in LLM response",
     "LLMError: Failed to parse LLM response as JSON"}

\* C12: when no strategy parses the response, the message of the error holds
\* a snippet of it, the first 200 characters from the first "{", or the
\* whole response when it has no "{"; no file is written.
C12_ParseErrorShowsSnippet ==
    (result.done /\ result.raised \in ParseErrors) =>
        /\ disk = result.before
        /\ result.shown =
              IF find_lbrace(response) = -1
              THEN [from |-> 0, to |-> TextLen(response)]
              ELSE snippet(response, find_lbrace(response))

(* ======================= the files written ======================= *)

\* The files of the manifest the last call parsed.
ManifestFiles == files_of(ParsedByLast)

\* The disk once the first k files of a manifest are written over it: a path
\* holds the content of the last of them that names it.
written_over(before, files, k) ==
    [p \in (DOMAIN before) \cup {files[j]["path"] : j \in 1..k} |->
        IF \E j \in 1..k : files[j]["path"] = p
        THEN files[Max({j \in 1..k : files[j]["path"] = p})]["content"]
        ELSE before[p]]

\* C13, as the code has it: the files are written in the order of the
\* manifest, each over what is at its path. When the k-th write fails the
\* disk is as the first k-1 writes left it, but for the path of the k-th file,
\* which may be left empty; no later file is written and nothing is undone.
\* When no write fails the paths returned are those of the manifest, in order.
C13_WritesInManifestOrder ==
    result.done =>
        LET files == ManifestFiles
            k == result.attempted
        IN /\ result.raised = "none" =>
                /\ result.paths = [j \in 1..Len(files) |-> files[j]["path"]]
                /\ disk = written_over(result.before, files, Len(files))
           /\ result.raised = "OSError" =>
                /\ k \in 1..Len(files)
                /\ disk \in {written_over(result.before, files, k - 1),
                             Put(written_over(result.before, files, k - 1),
                                 files[k]["path"], "")}

\* C13, as it is stated: when the k-th write fails, each of the files before
\* it is on the disk with its own content of the manifest.
C13_EarlierFilesKeepTheirContent ==
    (result.done /\ result.raised = "OSError") =>
        \A j \in 1..(result.attempted - 1) :
            /\ Has(disk, ManifestFiles[j]["path"])
            /\ disk[ManifestFiles[j]["path"]] = ManifestFiles[j]["content"]

\* the third write failed, the two before it are on the disk, over a file that
\* was there and beside one that is left as it was
C13_Witness ==
    /\ result.done
    /\ result.raised = "OSError"
    /\ result.attempted = 3
    /\ ManifestFiles[1]["path"] /= ManifestFiles[2]["path"]
    /\ result.before = [p \in FilePaths |-> "old"]
    /\ \A j \in 1..2 : disk[ManifestFiles[j]["path"]] = ManifestFiles[j]["content"]

\* C14: a second call on the same manifest and directory, the file system not
\* failing, does not fail, leaves every file as the first call left it and
\* returns the same paths.
C14_SecondCallChangesNothing ==
    [][(result.done /\ result.raised = "none" /\ result'.raised /= "OSError") =>
        /\ result'.raised = "none"
        /\ disk' = disk
        /\ result'.paths = result.paths]_vars

\* two calls were made on a manifest that names a path twice, over files that
\* were there
C14_Witness ==
    /\ result.left = 0
    /\ result.raised = "none"
    /\ result.before = disk
    /\ Len(ManifestFiles) >= 2
    /\ ManifestFiles[1]["path"] = ManifestFiles[2]["path"]
    /\ ManifestFiles[1]["content"] /= ManifestFiles[2]["content"]

\* C15: a dispatch that reaches the backend makes one call, and its convention
\* follows the provider entry: for a cloud provider the completion-style call
\* exactly when the model name is one of the four listed Codex names or starts
\* with "code-" and the chat-style call (system and user message) otherwise,
\* with "gpt-4" when the entry names no model; for a local provider always the
\* chat call with the single user message.
DispatchedModel ==
    IF Has(dispatch.provider, "model") THEN dispatch.provider["model"]
    ELSE IF Get(dispatch.provider, "type") = "cloud" THEN "gpt-4"
    ELSE "deepseek-coder-v2"
C15_CallFollowsProviderAndModel ==
    dispatch.calls /= <<>> =>
        /\ Len(dispatch.calls) = 1
        /\ dispatch.calls[1].model = DispatchedModel
        /\ Get(dispatch.provider, "type") \in {"local", "cloud"}
        /\ Get(dispatch.provider, "type") = "local" =>
              /\ dispatch.calls[1].api = "ollama.chat"
              /\ dispatch.calls[1].messages = <<"user">>
        /\ Get(dispatch.provider, "type") = "cloud" =>
              /\ dispatch.calls[1].api \in {"completions", "chat.completions"}
              /\ dispatch.calls[1].api = "completions" <=>
                    \/ DispatchedModel \in {"code-davinci-002", "code-davinci-001",
                                            "code-cushman-002", "code-cushman-001"}
                    \/ /\ Len(DispatchedModel) >= 5
                       /\ SubSeq(DispatchedModel, 1, 5) = "code-"
              /\ dispatch.calls[1].api = "chat.completions" =>
                    dispatch.calls[1].messages = <<"system", "user">>
              /\ DispatchedModel \in {"gpt-4", "claude-x"} =>
                    dispatch.calls[1].api = "chat.completions"

\* A cloud entry whose model is outside the list but starts with "code-" has
\* been sent as a completion-style call.
C15_Witness ==
    /\ dispatch.calls /= <<>>
    /\ Get(dispatch.provider, "type") = "cloud"
    /\ DispatchedModel = "code-x"
    /\ dispatch.calls[1].api = "completions"

\* C16: one generate_domain makes at most one call of the backend; when that
\* call raises, the same step ends the invocation as failed with the backend
\* error, with no further call and no file written, and nothing follows a
\* failed invocation.
BackendErrors ==
    {"LLMError: Failed to call Ollama", "LLMError: Failed to call cloud provider"}
C16_FailedCallIsNotRetried ==
    [][/\ Len(dispatch'.calls) <= 1
       /\ dispatch.pc # "failed"
       /\ (dispatch.pc = "sent" /\ dispatch'.raised \in BackendErrors) =>
             /\ dispatch'.pc = "failed"
             /\ dispatch'.calls = dispatch.calls
             /\ disk' = disk
             /\ result' = result
       /\ (dispatch.pc = "sent" /\ dispatch'.raised \notin BackendErrors) =>
             dispatch'.calls = dispatch.calls]_vars

\* The one call of a cloud backend has failed.
C16_Witness ==
    /\ dispatch.pc = "failed"
    /\ dispatch.raised = "LLMError: Failed to call cloud provider"
    /\ Len(dispatch.calls) = 1
    /\ result = NotWritten

\* The call waits for a backend that will never respond: the iterator has
\* nothing more to yield and never ends, or client.pull(model) never returns.
WaitsForSilentBackend ==
    \/ /\ provision.pc = "iterating"
       /\ provision.stream = <<>>
       /\ provision.ends = "never"
    \/ /\ provision.pc \in {"waiting", "shutdown"}
       /\ provision.answer = "never"

\* C17: a pull whose backend never responds eventually raises the timeout
\* error, on the streaming path and on the blocking path, and the timeout
\* error is never raised before 600 seconds of waiting have passed.
C17_SilentBackendTimesOut ==
    /\ [](provision.outcome = "LLMInitError: Ollama pull timed out" =>
            provision.clock - provision.start >= OLLAMA_PULL_TIMEOUT_SECONDS)
    /\ (WaitsForSilentBackend ~>
            provision.outcome = "LLMInitError: Ollama pull timed out")

\* C18: in the blocking pull, when the caller stops waiting for a call of the
\* backend that is still running, it has raised the timeout error: it does not
\* wait for the worker to finish.
C18_CallerAbandonsTheWorker ==
    [][(/\ provision.pc = "waiting"
        /\ provision'.pc /= "waiting"
        /\ provision.worker = "running"
        /\ provision'.worker = "running") =>
            /\ provision'.pc = "done"
            /\ provision'.outcome = "LLMInitError: Ollama pull timed out"]_vars

\* The payloads the sink was called with, and those of them it raised on.
SunkPayloads == [i \in 1..Len(provision.sunk) |-> provision.sunk[i].payload]
Normalized(payloads) == SelectSeq(payloads, LAMBDA payload : normalized(payload))

\* C19: in a streaming pull the sink is called once, in order, for every
\* received payload that is a dict or has model_dump() or dict(), and what the
\* sink raises is discarded: the pull returns the last received payload when
\* the iterator ends, raises the timeout error only on a late payload, and
\* raises another error only when the iterator itself raised.
C19_SinkErrorsAreDiscarded ==
    /\ SunkPayloads = Normalized(provision.seen)
    /\ (provision.pc = "done" /\ provision.calls = <<"pull(model, stream=True)">>) =>
          /\ provision.outcome \in {"returned", "LLMInitError: Ollama pull timed out",
                                    "LLMInitError: Failed to pull model"}
          /\ provision.outcome = "returned" =>
                /\ provision.stream = <<>>
                /\ provision.ends = "ok"
                /\ provision.seen /= <<>>
                /\ provision.returned = provision.seen[Len(provision.seen)]
          /\ provision.outcome = "LLMInitError: Failed to pull model" =>
                /\ provision.stream = <<>>
                /\ provision.ends = "error"
          /\ provision.outcome = "LLMInitError: Ollama pull timed out" =>
                /\ provision.seen /= <<>>
                /\ provision.clock - provision.start > OLLAMA_PULL_TIMEOUT_SECONDS

\* C19 as stated: the sink is called once for every received payload.
C19_SinkCalledForEveryPayload ==
    Len(provision.sunk) = Len(provision.seen)

\* A streaming pull has returned its last payload although the sink raised on
\* one payload and not on another.
C19_Witness ==
    /\ provision.pc = "done"
    /\ provision.outcome = "returned"
    /\ \E i, j \in 1..Len(provision.sunk) :
          provision.sunk[i].raised /\ ~provision.sunk[j].raised

\* C20: with a sink, the streaming pull is the first call, and the blocking
\* pull is issued exactly when client.pull does not accept stream=True; after
\* a streaming pull that the backend supports, no blocking pull follows.
C20_BlockingPullOnlyWithoutStreaming ==
    (provision.sink /= "none" /\ provision.pc /= "idle") =>
        /\ provision.calls[1] = "pull(model, stream=True)"
        /\ (\E i \in 1..Len(provision.calls) : provision.calls[i] = "pull(model)")
              <=> ~provision.streams

(* ======================= later claims on the registry ======================= *)

\* C29: add_provider makes the added name the default exactly when the
\* providers mapping it loaded is empty, also when removals emptied it, and
\* otherwise leaves the default field as it was, set or not set: with other
\* providers present and no default, it sets none. Stated of the registry
\* add_provider loads and of the dict it saves.
C29_AddSetsDefaultOnlyWhenEmpty ==
    [][last'.op = "add_provider" =>
        \A pre \in {registry} :
        \A post \in {memory'} :
            IF DOMAIN ProvidersOf(pre) = {}
            THEN DefaultOf(post) = last'.name
            ELSE /\ DefaultOf(post) = DefaultOf(pre)
                 /\ Has(post["llm"], "default") <=> Has(pre["llm"], "default")]_vars

\* A provider has been added to a registry that holds another provider and no
\* default, and there is still no default.
C29_Witness ==
    /\ last.op = "add_provider"
    /\ ~last.before.existed
    /\ Cardinality(DOMAIN providers) = 2
    /\ default_provider = None
    /\ ~Has(registry["llm"], "default")

(* ======================= later claims on generation ======================= *)

\* C23: no step of a generation command changes the project's configuration
\* file or the global registry file, whatever manifest the backend returns.
C23_GenerationLeavesConfigAlone ==
    [][project_file' = project_file /\ config_file' = config_file]_vars

\* The response holds JSON that is not a manifest of whole records: a list,
\* or a manifest with a record that lacks its path or its content.
InvalidManifest ==
    \E i \in DOMAIN response :
        \/ response[i] = JSON_LIST
        \/ response[i] \in {ManifestTexts[files] : files \in MalformedLists}

\* C27: a response whose JSON is not an object, or whose manifest has a record
\* without path or content, is rejected with an LLMError and nothing is
\* written: the directory is as the call found it.
C27_InvalidManifestWritesNothing ==
    (last.op \in {"_write_domain_files", "_write_layout_files"} /\ InvalidManifest) =>
        /\ startswith(result.raised, "LLMError")
        /\ disk = result.before

\* The input of the command that cannot be resolved, as the error it calls
\* for: the project file, the default provider's name, its entry, the
\* requirements document, the policy, in that order.
UnresolvedInput ==
    IF ~project_file.exists THEN "MissingProjectConfigError"
    ELSE LET config == yaml_safe_load(project_file.text)
             llm == IF Has(config, "llm") THEN config["llm"] ELSE EmptyDict
         IN IF ~Has(llm, "default")
            THEN "GeneratorError: No default LLM provider configured"
            ELSE IF ~Has(llm, "providers") \/ ~Has(llm["providers"], llm["default"])
            THEN "GeneratorError: Provider not found in configuration"
            ELSE IF dispatch.srs \in {"missing", "empty"} THEN "MissingSRSError"
            ELSE IF ~dispatch.policy THEN "MissingPolicyError"
            ELSE "none"

\* C24: when the project file is absent, names no default provider, has no
\* entry for it, or the requirements document is missing or blank, or the
\* language has no policy, the one step of the command ends it with the
\* error of that input, with no call of the backend and no file written.
C24_NoCallBeforeInputsResolve ==
    [][UnresolvedInput /= "none" =>
        /\ dispatch.pc = "idle"
        /\ dispatch'.pc = "failed"
        /\ dispatch'.raised = UnresolvedInput
        /\ dispatch'.calls = <<>>
        /\ disk' = disk
        /\ result' = result]_vars

\* The command has failed on a blank requirements document, its project file
\* and provider entry being in order.
C24_Witness ==
    /\ dispatch.pc = "failed"
    /\ dispatch.srs = "empty"
    /\ dispatch.raised = "MissingSRSError"
    /\ dispatch.calls = <<>>
    /\ result = NotWritten

\* The command's inputs resolve, the client library is installed, its default
\* provider is a cloud provider, and neither the project's entry nor the registry's entry of that name has an
\* api_key.
CloudWithoutSecret ==
    /\ UnresolvedInput = "none"
    /\ "openai" \in dispatch.libraries
    /\ LET llm == yaml_safe_load(project_file.text)["llm"]
           name == llm["default"]
           entry == llm["providers"][name]
           global_providers == ProvidersOf(load_config(config_file))
       IN /\ Get(entry, "type") = "cloud"
          /\ ~Truthy(Get(entry, "api_key"))
          /\ ~(Has(global_providers, name)
                  /\ Truthy(Get(global_providers[name], "api_key")))

\* C25: a generation command whose cloud provider has no secret in either
\* scope ends with the missing-API-key error.
C25_NoSecretRaisesSecretError ==
    (dispatch.pc /= "idle" /\ CloudWithoutSecret) =>
        /\ dispatch.pc = "failed"
        /\ dispatch.raised = "MissingApiKeyError"

\* C26: on every response the two services do the same: both write the same
\* files with the same content, or both fail and write nothing.
C26_ServicesMaterializeAlike ==
    \A domain \in {write_parsed(parse_domain_response(response), disk, NoFailure)} :
    \A layout \in {write_parsed(parse_llm_json_response(response), disk, NoFailure)} :
        /\ domain.raised = "none" <=> layout.raised = "none"
        /\ domain.disk = layout.disk
        /\ domain.paths = layout.paths

(* ======================= later claims on initialisation ======================= *)

\* The registry passes the checks of initialize: it has a default that names
\* one of its entries, a cloud entry with an api_key or a local entry named
\* ollama.
ValidDefault(config) ==
    /\ DefaultOf(config) /= None
    /\ DefaultOf(config) \in DOMAIN ProvidersOf(config)
    /\ LET entry == ProvidersOf(config)[DefaultOf(config)]
       IN \/ Get(entry, "type") = "cloud" /\ Has(entry, "api_key")
          \/ Get(entry, "type") = "local" /\ DefaultOf(config) \in {"ollama", "Ollama"}

\* C28: initialize either returns, having found no .smartgen.yml and a valid
\* default in the registry, and leaves a file whose default is the registry's
\* default and whose providers are that one entry; or it raises and leaves
\* the file as it was, absent or not. It raises whenever the file is there
\* already, the registry's default is not valid, or the pull has failed.
C28_InitializeIsAllOrNothing ==
    [][last'.op = "initialize" =>
        \A config \in {registry} :
        IF last'.raised = "none"
        THEN /\ ~project_file.exists
             /\ ValidDefault(config)
             /\ project_file'.exists
             /\ \A written \in {yaml_safe_load(project_file'.text)} :
                   /\ DOMAIN written = {"llm"}
                   /\ written["llm"]["default"] = DefaultOf(config)
                   /\ DOMAIN written["llm"]["providers"] = {DefaultOf(config)}
        ELSE /\ project_file' = project_file
             /\ \/ project_file.exists
                \/ ~ValidDefault(config)
                \/ last'.raised \in {"LLMInitError: pull timed out",
                                     "LLMInitError: pull failed"}]_vars

\* initialize has raised on a valid registry because .smartgen.yml was there,
\* and the file is still there.
C28_Witness ==
    /\ last.op = "initialize"
    /\ last.raised = "LLMInitError: already exists"
    /\ ValidDefault(registry)
    /\ project_file = FileOf(yaml_safe_dump(sample_smartgen_config))

C21_ForwardedIsSumOfMostRecent ==
    sum_values(progress.recent.total) > 0 =>
        /\ progress.task.total = <<sum_values(progress.recent.total)>>
        /\ progress.task.completed = sum_values(progress.recent.completed)
        /\ progress.status /= None =>
              progress.task.description
                  = "Pulling Ollama model (" \o progress.status \o ")"

\* C30: with two processes running add_provider, set_default_provider and
\* remove_provider, their loads and saves interleaved in any order, every
\* registry that is persisted, and every dict a process is about to persist,
\* has a default only if the default names a key of its providers.
C30_InterleavedSavesKeepDefaultAProvider ==
    /\ DefaultOf(registry) /= None
          => DefaultOf(registry) \in DOMAIN ProvidersOf(registry)
    /\ \A pid \in Pids :
          (procs.run[pid].pc = "loaded" /\ DefaultOf(procs.run[pid].config) /= None)
          => DefaultOf(procs.run[pid].config)
                 \in DOMAIN ProvidersOf(procs.run[pid].config)

\* A save has replaced a registry the saver never loaded, undoing a removal:
\* the other process had removed the default's entry in between.
C30_Witness ==
    /\ procs.overwrote
    /\ procs.saves >= 4
    /\ \E pid \in Pids : procs.run[pid].op = "remove_provider"
    /\ \E pid \in Pids : procs.run[pid].op = "set_default_provider"
    /\ DefaultOf(registry) /= None
    /\ Cardinality(DOMAIN ProvidersOf(registry)) = 2

====
